---- MODULE Spec2Model ----
(***************************************************************************)
(* The Handlebars node visitor of the template front end                   *)
(* (HandlebarsNodeVisitors) as a state machine.  The visitor walks a       *)
(* Handlebars CST in document order; the HTML tokenizer's lexical state,   *)
(* the element stack and the node that is under construction are shared by *)
(* all visits.  The CST is produced lazily: each step draws the next       *)
(* statement of the body that is being visited.                            *)
(***************************************************************************)
EXTENDS Integers, Sequences, FiniteSets, TLC

\* Number of CST statements one parse visits.
MaxStmts == 3

VARIABLES
  tokenizer,      \* [state, pos, tagStart]: the HTML tokenizer
  elementStack,   \* sequence of node ids, top last
  nodes,          \* the AST arena: nodes[id] is the node with that identity
  currentNode,    \* the tag, comment or text the tokenizer is building
  currentAttr,    \* the attribute the tokenizer is building
  error,          \* the error the parse raised, kind "none" while it runs
  frames,         \* the Program visits in progress, innermost last
  pc,             \* "start", "body", "done" or "error"
  result,         \* id of the root Template once the parse is done
  steps,          \* CST statements visited so far
  srcPos,         \* source offset of the next CST statement
  last,           \* the visit the last step made, and what it returned
  prev,           \* the parser as it was before the last step
  rets,           \* the Program visits that returned during the last step
  cst,            \* a CST call node the Handlebars parser produced
  ast,            \* the visits made of cst: what each was given and returned
  written,        \* the text runs and dynamic nodes of an attribute value, in
                  \* the order the source has them
  builderAst,     \* the description handed to AstBuilder.build
  pos,            \* AstBuilder.pos
  built,          \* what AstBuilder.build returned
  positional,     \* the positional arguments captured by the fn helper
  calls,          \* the calls the function made by the fn helper has made
  running,        \* the append routines in progress, innermost last
  emitted,        \* the opcodes the append routines executed, in order
  helperManagerDelegates,  \* CustomHelperManager: the delegate of each owner
  undefinedDelegate,       \* CustomHelperManager: the delegate of no owner
  DEBUG,          \* whether the build is a debug build
  factoryCalls,   \* the calls of the manager's factory, in order
  delegateCalls   \* the calls of getDelegateFor, in order

parserVars == <<tokenizer, elementStack, nodes, currentNode, currentAttr, error,
                frames, pc, result, steps, srcPos, last, prev, rets>>

exprVars == <<cst, ast>>

attrVars == <<written>>

builderVars == <<builderAst, pos, built>>

fnVars == <<positional, calls>>

stdVars == <<running, emitted>>

managerVars == <<helperManagerDelegates, undefinedDelegate, DEBUG, factoryCalls,
                 delegateCalls>>

vars == <<parserVars, exprVars, attrVars, builderVars, fnVars, stdVars,
          managerVars>>

----------------------------------------------------------------------------
\* Locations, errors and AST nodes

Pos(c) == [line |-> 1, column |-> c]

Loc(a, b) == [source |-> "template", start |-> Pos(a), end |-> Pos(b)]

\* a CST node whose loc the Handlebars parser left unset
MissingLoc == [source |-> "(missing)", start |-> Pos(0), end |-> Pos(0)]

NON_EXISTENT_LOCATION ==
  [source |-> "(nonexistent)", start |-> Pos(0), end |-> Pos(0)]

spanFor(loc) == [source |-> loc.source, start |-> loc.start, end |-> loc.end]

collapse(span, where) ==
  IF where = "end" THEN [span EXCEPT !.start = span.end]
  ELSE [span EXCEPT !.end = span.start]

NoError == [kind |-> "none", msg |-> "", arg |-> <<>>, loc |-> Loc(0, 0)]

\* msg is the fixed text of the message, arg the value spliced into it
generateSyntaxError(msg, arg, loc) ==
  [kind |-> "SyntaxError", msg |-> msg, arg |-> arg, loc |-> loc]

\* the tail of a path that has no segments after its head
NoTail == [present |-> FALSE, segments |-> <<>>]

NoHash == [type |-> "none", err |-> NoError, pairs |-> <<>>, loc |-> Loc(0, 0)]

\* an expression of the AST; err is the error its translation raised
Expr ==
  [type |-> "none", err |-> NoError, original |-> <<>>, head |-> <<>>,
   tail |-> NoTail, value |-> <<>>, callee |-> <<>>, params |-> <<>>,
   hash |-> NoHash, loc |-> Loc(0, 0)]

BlankNode ==
  [type |-> "none", loc |-> Loc(0, 0), tag |-> <<>>, children |-> <<>>,
   attributes |-> <<>>, modifiers |-> <<>>, comments |-> <<>>,
   selfClosing |-> FALSE, chars |-> <<>>, path |-> Expr, params |-> <<>>,
   hash |-> NoHash, trusting |-> FALSE, program |-> 0, inverse |-> 0]

NoCurrent ==
  [type |-> "none", name |-> <<>>, attributes |-> <<>>, modifiers |-> <<>>,
   comments |-> <<>>, selfClosing |-> FALSE, chars |-> <<>>, start |-> 0]

NoAttr ==
  [name |-> <<>>, parts |-> <<>>, currentPart |-> <<>>, hasPart |-> FALSE,
   isQuoted |-> FALSE, isDynamic |-> FALSE, start |-> 0]

\* one character of text, or the raw source text of a CST node
Ch(c) == [k |-> "char", c |-> c, loc |-> Loc(0, 0)]

sourceForNode(loc) == [k |-> "src", c |-> "", loc |-> loc]

Top(stack) == stack[Len(stack)]

Pop(stack) == SubSeq(stack, 1, Len(stack) - 1)

\* The parser as one value, so that the handlers compose.
Cur ==
  [state |-> tokenizer.state, tokPos |-> tokenizer.pos,
   tagStart |-> tokenizer.tagStart, stack |-> elementStack, nodes |-> nodes,
   cur |-> currentNode, attr |-> currentAttr, err |-> error,
   frames |-> frames, pc |-> pc, result |-> result, rets |-> <<>>,
   ret |-> 0, made |-> 0, reject |-> FALSE]

Throw(s, e) == [s EXCEPT !.err = e, !.pc = "error"]

Failed(s) == s.err.kind # "none"

NewNode(s, n) == [s EXCEPT !.nodes = Append(@, n), !.made = Len(s.nodes) + 1]

currentElement(s) == Top(s.stack)

appendChild(s, parent, child) ==
  [s EXCEPT !.nodes[parent].children = Append(@, child)]

----------------------------------------------------------------------------
\* The tokenizer's delegate: what the parser builds on each tokenizer event

beginData(s) ==
  [s EXCEPT !.cur = [NoCurrent EXCEPT !.type = "TextNode", !.start = s.tokPos]]

appendToData(s, c) == [s EXCEPT !.cur.chars = Append(@, Ch(c))]

finishData(s) ==
  LET t == NewNode(s, [BlankNode EXCEPT !.type = "TextNode",
                         !.chars = s.cur.chars,
                         !.loc = Loc(s.cur.start, s.tokPos)])
  IN appendChild(t, currentElement(t), t.made)

beginComment(s) ==
  [s EXCEPT !.cur = [NoCurrent EXCEPT !.type = "CommentStatement",
                                      !.start = s.tagStart]]

appendToCommentData(s, item) == [s EXCEPT !.cur.chars = Append(@, item)]

finishComment(s) ==
  LET t == NewNode(s, [BlankNode EXCEPT !.type = "CommentStatement",
                         !.chars = s.cur.chars,
                         !.loc = Loc(s.cur.start, s.tokPos)])
  IN appendChild(t, currentElement(t), t.made)

beginStartTag(s) ==
  [s EXCEPT !.cur = [NoCurrent EXCEPT !.type = "StartTag", !.start = s.tagStart]]

beginEndTag(s) ==
  [s EXCEPT !.cur = [NoCurrent EXCEPT !.type = "EndTag", !.start = s.tagStart]]

appendToTagName(s, c) == [s EXCEPT !.cur.name = Append(@, c)]

beginAttribute(s) == [s EXCEPT !.attr = [NoAttr EXCEPT !.start = s.tokPos]]

appendToAttributeName(s, c) == [s EXCEPT !.attr.name = Append(@, c)]

startTextPart(s) ==
  [s EXCEPT !.attr.currentPart = <<>>, !.attr.hasPart = FALSE]

finalizeTextPart(s) ==
  IF s.attr.hasPart
  THEN startTextPart([s EXCEPT !.attr.parts =
         Append(@, [type |-> "TextNode", chars |-> s.attr.currentPart, id |-> 0])])
  ELSE s

\* appendDynamicAttributeValuePart without the flush of the pending text
appendDynamicAttributeValuePart_NoFlush(s, part) ==
  [s EXCEPT !.attr.isDynamic = TRUE,
            !.attr.parts = Append(@, [type |-> "Dynamic", chars |-> <<>>, id |-> part])]

appendDynamicAttributeValuePart(s, part) ==
  LET t == finalizeTextPart(s)
  IN [t EXCEPT !.attr.isDynamic = TRUE,
               !.attr.parts = Append(@, [type |-> "Dynamic", chars |-> <<>>, id |-> part])]

beginAttributeValue(s, quoted) ==
  startTextPart([s EXCEPT !.attr.isQuoted = quoted])

appendToAttributeValue(s, c) ==
  [s EXCEPT !.attr.currentPart = Append(@, c), !.attr.hasPart = TRUE]

finishAttributeValue(s) ==
  LET t == finalizeTextPart(s)
  IN [t EXCEPT !.cur.attributes =
        Append(@, [name |-> t.attr.name, parts |-> t.attr.parts,
                   isQuoted |-> t.attr.isQuoted, isDynamic |-> t.attr.isDynamic])]

finishStartTag(s) ==
  LET t == NewNode(s, [BlankNode EXCEPT !.type = "ElementNode",
                         !.tag = s.cur.name,
                         !.attributes = s.cur.attributes,
                         !.modifiers = s.cur.modifiers,
                         !.comments = s.cur.comments,
                         !.selfClosing = s.cur.selfClosing,
                         !.loc = Loc(s.cur.start, s.tokPos)])
  IN [t EXCEPT !.stack = Append(@, t.made)]

\* closing an element: the popped node has to be the element the tag names
finishEndTag(s, isVoid) ==
  IF Len(s.stack) = 0
  THEN Throw(s, generateSyntaxError("Closing tag without an open tag",
                                    s.cur.name, Loc(s.cur.start, s.tokPos)))
  ELSE
    LET element == Top(s.stack)
        t == [s EXCEPT !.stack = Pop(@)]
    IN IF s.nodes[element].type # "ElementNode"
       THEN Throw(t, generateSyntaxError("Closing tag without an open tag",
                                         s.cur.name, Loc(s.cur.start, s.tokPos)))
       ELSE IF s.nodes[element].tag # s.cur.name
       THEN Throw(t, generateSyntaxError("Closing tag did not match last open tag",
                                         s.cur.name, Loc(s.cur.start, s.tokPos)))
       ELSE appendChild([t EXCEPT !.nodes[element].loc.end = s.tokPos],
                        currentElement(t), element)

finishTag(s) ==
  IF s.cur.type = "StartTag"
  THEN LET t == finishStartTag(s)
       IN IF s.cur.selfClosing THEN finishEndTag(t, TRUE) ELSE t
  ELSE finishEndTag(s, FALSE)

markTagAsSelfClosing(s) == [s EXCEPT !.cur.selfClosing = TRUE]

----------------------------------------------------------------------------
\* The HTML tokenizer: one step per character of a ContentStatement

\* transitionTo, which a delegate that raised never reaches
To(s, st) == IF s.err.kind # "none" THEN s ELSE [s EXCEPT !.state = st]

IsAlpha(c) == c \in {"a", "b"}

IsSpace(c) == c = " "

\* "--" stands for the two dashes that open and close a comment
CharLen(c) == IF c = "--" THEN 2 ELSE 1

reportSyntaxError(s, msg) ==
  Throw(s, generateSyntaxError(msg, <<>>, Loc(s.tokPos, s.tokPos)))

\* s: before the character, t: s with the character consumed
InAttributeName(s, t, c) ==
  IF IsSpace(c) THEN [t EXCEPT !.state = "afterAttributeName"]
  ELSE IF c = "/"
  THEN [finishAttributeValue(beginAttributeValue(t, FALSE))
          EXCEPT !.state = "selfClosingStartTag"]
  ELSE IF c = "=" THEN [t EXCEPT !.state = "beforeAttributeValue"]
  ELSE IF c = ">"
  THEN To(finishTag(finishAttributeValue(beginAttributeValue(t, FALSE))), "beforeData")
  ELSE IF c \in {"\"", "'", "<"}
  THEN reportSyntaxError(t, "is not a valid character within attribute names")
  ELSE appendToAttributeName(t, c)

InBeforeAttributeName(s, t, c) ==
  IF IsSpace(c) THEN [t EXCEPT !.state = "beforeAttributeName"]
  ELSE IF c = "/" THEN [t EXCEPT !.state = "selfClosingStartTag"]
  ELSE IF c = ">" THEN To(finishTag(t), "beforeData")
  ELSE IF c = "="
  THEN reportSyntaxError(t, "attribute name cannot start with equals sign")
  ELSE InAttributeName(s, [beginAttribute(s) EXCEPT !.state = "attributeName",
                                                    !.tokPos = t.tokPos], c)

TokChar(s, c) ==
  LET t == [s EXCEPT !.tokPos = @ + CharLen(c)]
      st == s.state
  IN
  CASE st = "beforeData" ->
         IF c = "<" THEN [t EXCEPT !.state = "tagOpen", !.tagStart = s.tokPos]
         ELSE appendToData([beginData(s) EXCEPT !.state = "data",
                                                !.tokPos = t.tokPos], c)
    [] st = "data" ->
         IF c = "<"
         THEN [finishData(s) EXCEPT !.state = "tagOpen", !.tagStart = s.tokPos,
                                    !.tokPos = t.tokPos]
         ELSE appendToData(t, c)
    [] st = "tagOpen" ->
         IF c = "!" THEN [t EXCEPT !.state = "markupDeclarationOpen"]
         ELSE IF c = "/" THEN [t EXCEPT !.state = "endTagOpen"]
         ELSE IF IsAlpha(c)
         THEN appendToTagName([beginStartTag(t) EXCEPT !.state = "tagName"], c)
         ELSE t
    [] st = "markupDeclarationOpen" ->
         IF c = "--" THEN [beginComment(t) EXCEPT !.state = "commentStart"]
         ELSE t
    [] st = "commentStart" ->
         IF c = "--" THEN [t EXCEPT !.state = "commentEnd"]
         ELSE IF c = ">" THEN [finishComment(t) EXCEPT !.state = "beforeData"]
         ELSE [appendToCommentData(t, Ch(c)) EXCEPT !.state = "comment"]
    [] st = "comment" ->
         IF c = "--" THEN [t EXCEPT !.state = "commentEnd"]
         ELSE appendToCommentData(t, Ch(c))
    [] st = "commentEnd" ->
         IF c = ">" THEN [finishComment(t) EXCEPT !.state = "beforeData"]
         ELSE [appendToCommentData(appendToCommentData(t, Ch("--")), Ch(c))
                 EXCEPT !.state = "comment"]
    [] st = "endTagOpen" ->
         IF IsAlpha(c)
         THEN appendToTagName([beginEndTag(t) EXCEPT !.state = "endTagName"], c)
         ELSE t
    [] st = "tagName" ->
         IF IsSpace(c) THEN [t EXCEPT !.state = "beforeAttributeName"]
         ELSE IF c = "/" THEN [t EXCEPT !.state = "selfClosingStartTag"]
         ELSE IF c = ">" THEN To(finishTag(t), "beforeData")
         ELSE appendToTagName(t, c)
    [] st = "endTagName" ->
         \* an end tag is a name and ">": attributes in it are not fed
         IF IsSpace(c) \/ c = "/" THEN [t EXCEPT !.reject = TRUE]
         ELSE IF c = ">" THEN To(finishTag(t), "beforeData")
         ELSE appendToTagName(t, c)
    [] st = "beforeAttributeName" -> InBeforeAttributeName(s, t, c)
    [] st = "attributeName" -> InAttributeName(s, t, c)
    [] st = "afterAttributeName" ->
         IF IsSpace(c) THEN t
         ELSE IF c = "/"
         THEN [finishAttributeValue(beginAttributeValue(t, FALSE))
                 EXCEPT !.state = "selfClosingStartTag"]
         ELSE IF c = "=" THEN [t EXCEPT !.state = "beforeAttributeValue"]
         ELSE IF c = ">"
         THEN To(finishTag(finishAttributeValue(beginAttributeValue(t, FALSE))), "beforeData")
         ELSE appendToAttributeName(
                [beginAttribute(finishAttributeValue(beginAttributeValue(s, FALSE)))
                   EXCEPT !.state = "attributeName", !.tokPos = t.tokPos], c)
    [] st = "beforeAttributeValue" ->
         IF IsSpace(c) THEN t
         ELSE IF c = "\""
         THEN [beginAttributeValue(t, TRUE) EXCEPT !.state = "attributeValueDoubleQuoted"]
         ELSE IF c = "'"
         THEN [beginAttributeValue(t, TRUE) EXCEPT !.state = "attributeValueSingleQuoted"]
         ELSE IF c = ">"
         THEN To(finishTag(finishAttributeValue(beginAttributeValue(t, FALSE))), "beforeData")
         ELSE appendToAttributeValue(
                [beginAttributeValue(t, FALSE) EXCEPT !.state = "attributeValueUnquoted"], c)
    [] st = "attributeValueDoubleQuoted" ->
         IF c = "\""
         THEN [finishAttributeValue(t) EXCEPT !.state = "afterAttributeValueQuoted"]
         ELSE appendToAttributeValue(t, c)
    [] st = "attributeValueSingleQuoted" ->
         IF c = "'"
         THEN [finishAttributeValue(t) EXCEPT !.state = "afterAttributeValueQuoted"]
         ELSE appendToAttributeValue(t, c)
    [] st = "attributeValueUnquoted" ->
         IF IsSpace(c)
         THEN [finishAttributeValue(t) EXCEPT !.state = "beforeAttributeName"]
         ELSE IF c = "/"
         THEN [finishAttributeValue(t) EXCEPT !.state = "selfClosingStartTag"]
         ELSE IF c = ">"
         THEN To(finishTag(finishAttributeValue(t)), "beforeData")
         ELSE appendToAttributeValue(t, c)
    [] st = "afterAttributeValueQuoted" -> InBeforeAttributeName(s, t, c)
    [] st = "selfClosingStartTag" ->
         IF c = ">"
         THEN To(finishTag(markTagAsSelfClosing(t)), "beforeData")
         ELSE InBeforeAttributeName(s, t, c)
    [] OTHER -> t

RECURSIVE tokenizePart(_, _)
tokenizePart(s, text) ==
  IF text = <<>> \/ Failed(s) \/ s.reject THEN s
  ELSE tokenizePart(TokChar(s, Head(text)), Tail(text))

flushData(s) ==
  IF ~Failed(s) /\ s.state = "data"
  THEN [finishData(s) EXCEPT !.state = "beforeData"]
  ELSE s

----------------------------------------------------------------------------
\* Expressions: paths, literals, sub-expressions, and call-node resolution

RECURSIVE Join(_, _)
Join(parts, sep) ==
  IF parts = <<>> THEN <<>>
  ELSE IF Len(parts) = 1 THEN parts[1]
  ELSE parts[1] \o <<sep>> \o Join(Tail(parts), sep)

\* the match without its anchor at the end: /^this/
MatchesThis_Prefix(original) ==
  /\ Len(original) >= 4
  /\ SubSeq(original, 1, 4) = <<"t", "h", "i", "s">>

\* original.match(/^this(\..+)?$/)
MatchesThis(original) ==
  /\ Len(original) >= 4
  /\ SubSeq(original, 1, 4) = <<"t", "h", "i", "s">>
  /\ \/ Len(original) = 4
     \/ Len(original) >= 6 /\ original[5] = "."

HeadLoc(path, width) ==
  [start |-> path.loc.start,
   end |-> [line |-> path.loc.start.line,
            column |-> path.loc.start.column + width]]

\* parts.shift(): the first element, none when the array is empty
shift(parts) == IF parts = <<>> THEN <<>> ELSE <<Head(parts)>>

\* the array had the head been read as parts[0]
shifted_Kept(parts) == parts

\* the array after parts.shift()
shifted(parts) == IF parts = <<>> THEN <<>> ELSE Tail(parts)

HasSlash(original) == \E i \in 1..Len(original) : original[i] = "/"

\* the path node: a path with no segments after its head has no tail
PathExpressionImplV1(original, head, tail, loc) ==
  [Expr EXCEPT !.type = "PathExpression", !.original = original,
               !.head = head,
               !.tail = IF tail = <<>> THEN NoTail
                        ELSE [present |-> TRUE, segments |-> tail],
               !.loc = loc]

\* PathExpression without the check that a named argument has a name
PathExpression_UncheckedHead(path) ==
  LET original == path.original
      parts == IF HasSlash(original)
               THEN <<Join(path.parts, "/")>>
               ELSE path.parts
      head == shift(parts)
  IN IF MatchesThis(original)
     THEN PathExpressionImplV1(original,
            [type |-> "ThisHead", name |-> <<>>, loc |-> HeadLoc(path, 4)],
            parts, spanFor(path.loc))
     ELSE IF path.data
     THEN IF head = <<>>
          THEN PathExpressionImplV1(original,
                 [type |-> "AtHead", name |-> <<"@">>, loc |-> HeadLoc(path, 1)],
                 shifted(parts), spanFor(path.loc))
          ELSE PathExpressionImplV1(original,
                 [type |-> "AtHead", name |-> <<"@">> \o head[1],
                  loc |-> HeadLoc(path, Len(head[1]) + 1)],
                 shifted(parts), spanFor(path.loc))
     ELSE IF head = <<>>
          THEN PathExpressionImplV1(original,
                 [type |-> "VarHead", name |-> <<>>, loc |-> HeadLoc(path, 0)],
                 shifted(parts), spanFor(path.loc))
          ELSE PathExpressionImplV1(original,
                 [type |-> "VarHead", name |-> head[1],
                  loc |-> HeadLoc(path, Len(head[1]))],
                 shifted(parts), spanFor(path.loc))

PathExpression(path) ==
  LET original == path.original
      parts == IF HasSlash(original)
               THEN <<Join(path.parts, "/")>>
               ELSE path.parts
      head == shift(parts)
  IN IF MatchesThis(original)
     THEN PathExpressionImplV1(original,
            [type |-> "ThisHead", name |-> <<>>, loc |-> HeadLoc(path, 4)],
            parts, spanFor(path.loc))
     ELSE IF path.data
     THEN IF head = <<>>
          THEN [Expr EXCEPT !.type = "PathExpression", !.original = original,
                  !.loc = spanFor(path.loc),
                  !.err = generateSyntaxError(
                  "Attempted to parse a path expression, but it was not valid. Paths beginning with @ must start with a-z.",
                  <<>>, spanFor(path.loc))]
          ELSE PathExpressionImplV1(original,
                 [type |-> "AtHead", name |-> <<"@">> \o head[1],
                  loc |-> HeadLoc(path, Len(head[1]) + 1)],
                 shifted(parts), spanFor(path.loc))
     ELSE IF head = <<>>
          THEN PathExpressionImplV1(original,
                 [type |-> "VarHead", name |-> <<>>, loc |-> HeadLoc(path, 0)],
                 shifted(parts), spanFor(path.loc))
          ELSE PathExpressionImplV1(original,
                 [type |-> "VarHead", name |-> head[1],
                  loc |-> HeadLoc(path, Len(head[1]))],
                 shifted(parts), spanFor(path.loc))

\* The CST node after PathExpression has visited it: without a slash parts is
\* path.parts itself, and parts.shift() takes its first element away.
PathExpressionEffect(path) ==
  IF HasSlash(path.original) \/ MatchesThis(path.original) THEN path
  ELSE [path EXCEPT !.parts = shifted(@)]

isHBSLiteral(path) ==
  path.type \in {"StringLiteral", "BooleanLiteral", "NumberLiteral",
                 "NullLiteral", "UndefinedLiteral"}

\* StringLiteral, BooleanLiteral, NumberLiteral, UndefinedLiteral, NullLiteral
Literal(lit) ==
  [Expr EXCEPT !.type = lit.type,
               !.value = IF lit.type \in {"UndefinedLiteral", "NullLiteral"}
                         THEN <<>> ELSE lit.value,
               !.loc = lit.loc]

FirstError(exprs) ==
  IF \E i \in 1..Len(exprs) : exprs[i].err.kind # "none"
  THEN exprs[CHOOSE i \in 1..Len(exprs) :
               /\ exprs[i].err.kind # "none"
               /\ \A j \in 1..(i - 1) : exprs[j].err.kind = "none"].err
  ELSE NoError

RECURSIVE acceptNode(_)
RECURSIVE acceptCallNodes(_)

Hash(hash) ==
  LET values == [i \in 1..Len(hash.pairs) |-> acceptNode(hash.pairs[i].value)]
  IN [type |-> "Hash", err |-> FirstError(values),
      pairs |-> [i \in 1..Len(hash.pairs) |->
                   [key |-> hash.pairs[i].key, value |-> values[i],
                    loc |-> spanFor(hash.pairs[i].loc)]],
      loc |-> spanFor(hash.loc)]

\* acceptCallNodes placing the empty hash after the call path in every case
acceptCallNodes_HashAfterPath(node) ==
  LET path == acceptNode(node.path)
      params == [i \in 1..Len(node.params) |-> acceptNode(node.params[i])]
      hash == IF node.hash.type # "none"
              THEN Hash(node.hash)
              ELSE [type |-> "Hash", err |-> NoError, pairs |-> <<>>,
                    loc |-> collapse(spanFor(path.loc), "end")]
  IN [err |-> IF path.err.kind # "none" THEN path.err
              ELSE IF FirstError(params).kind # "none" THEN FirstError(params)
              ELSE hash.err,
      path |-> path, params |-> params, hash |-> hash]

\* node: [path, params, hash], hash of type "none" when the CST has none
acceptCallNodes(node) ==
  LET path == acceptNode(node.path)
      params == [i \in 1..Len(node.params) |-> acceptNode(node.params[i])]
      end == IF Len(params) > 0 THEN params[Len(params)].loc ELSE path.loc
      hash == IF node.hash.type # "none"
              THEN Hash(node.hash)
              ELSE [type |-> "Hash", err |-> NoError, pairs |-> <<>>,
                    loc |-> collapse(spanFor(end), "end")]
  IN [err |-> IF path.err.kind # "none" THEN path.err
              ELSE IF FirstError(params).kind # "none" THEN FirstError(params)
              ELSE hash.err,
      path |-> path, params |-> params, hash |-> hash]

SubExpression(sexpr) ==
  LET call == acceptCallNodes(sexpr)
  IN [Expr EXCEPT !.type = "SubExpression", !.err = call.err,
                  !.callee = <<call.path>>, !.params = call.params,
                  !.hash = call.hash, !.loc = spanFor(sexpr.loc)]

acceptNode(e) ==
  CASE e.type = "PathExpression" -> PathExpression(e)
    [] e.type = "SubExpression" -> SubExpression(e)
    [] OTHER -> Literal(e)

\* What the translations leave of the CST they were given.  A translation
\* that raises leaves what comes after it unvisited.
RECURSIVE acceptNodeEffect(_)
RECURSIVE acceptCallNodesEffect(_)

\* the elements are visited in order, up to the first that raises
acceptNodesEffect(exprs) ==
  [i \in 1..Len(exprs) |->
     IF \A j \in 1..(i - 1) : acceptNode(exprs[j]).err.kind = "none"
     THEN acceptNodeEffect(exprs[i])
     ELSE exprs[i]]

HashEffect(hash) ==
  LET values == acceptNodesEffect([i \in 1..Len(hash.pairs) |->
                                     hash.pairs[i].value])
  IN [hash EXCEPT !.pairs = [i \in 1..Len(hash.pairs) |->
                               [hash.pairs[i] EXCEPT !.value = values[i]]]]

acceptCallNodesEffect(node) ==
  LET path == acceptNode(node.path)
      params == [i \in 1..Len(node.params) |-> acceptNode(node.params[i])]
      a == [node EXCEPT !.path = acceptNodeEffect(node.path)]
      c == [a EXCEPT !.params = acceptNodesEffect(node.params)]
  IN IF path.err.kind # "none" THEN a
     ELSE IF FirstError(params).kind # "none" \/ node.hash.type = "none" THEN c
     ELSE [c EXCEPT !.hash = HashEffect(node.hash)]

acceptNodeEffect(e) ==
  CASE e.type = "PathExpression" -> PathExpressionEffect(e)
    [] e.type = "SubExpression" -> acceptCallNodesEffect(e)
    [] OTHER -> e

----------------------------------------------------------------------------
\* The visitor's handlers, as functions of the parser value

transitionTo(s, st) == [s EXCEPT !.state = st]

\* injectStatement that leaves the tokenizer after a quoted value
injectStatement_StaysAfterValue(s, node) ==
  CASE s.state \in {"tagOpen", "tagName"} ->
         Throw(s, generateSyntaxError("Cannot use mustaches in an elements tagname",
                                      <<>>, s.nodes[node].loc))
    [] s.state = "beforeAttributeName" ->
         [s EXCEPT !.cur.modifiers = Append(@, node)]
    [] s.state \in {"attributeName", "afterAttributeName"} ->
         LET t == finishAttributeValue(beginAttributeValue(s, FALSE))
         IN transitionTo([t EXCEPT !.cur.modifiers = Append(@, node)],
                         "beforeAttributeName")
    [] s.state = "afterAttributeValueQuoted" ->
         [s EXCEPT !.cur.modifiers = Append(@, node)]
    [] s.state = "beforeAttributeValue" ->
         transitionTo(appendDynamicAttributeValuePart(
                        beginAttributeValue(s, FALSE), node),
                      "attributeValueUnquoted")
    [] s.state \in {"attributeValueDoubleQuoted", "attributeValueSingleQuoted",
                    "attributeValueUnquoted"} ->
         appendDynamicAttributeValuePart(s, node)
    [] OTHER -> appendChild(s, currentElement(s), node)

\* injectStatement that takes a mustache before a value for a modifier
injectStatement_ValueAsModifier(s, node) ==
  CASE s.state \in {"tagOpen", "tagName"} ->
         Throw(s, generateSyntaxError("Cannot use mustaches in an elements tagname",
                                      <<>>, s.nodes[node].loc))
    [] s.state \in {"beforeAttributeName", "beforeAttributeValue"} ->
         [s EXCEPT !.cur.modifiers = Append(@, node)]
    [] s.state \in {"attributeName", "afterAttributeName"} ->
         LET t == finishAttributeValue(beginAttributeValue(s, FALSE))
         IN transitionTo([t EXCEPT !.cur.modifiers = Append(@, node)],
                         "beforeAttributeName")
    [] s.state = "afterAttributeValueQuoted" ->
         transitionTo([s EXCEPT !.cur.modifiers = Append(@, node)],
                      "beforeAttributeName")
    [] s.state = "beforeAttributeValue" ->
         transitionTo(appendDynamicAttributeValuePart(
                        beginAttributeValue(s, FALSE), node),
                      "attributeValueUnquoted")
    [] s.state \in {"attributeValueDoubleQuoted", "attributeValueSingleQuoted",
                    "attributeValueUnquoted"} ->
         appendDynamicAttributeValuePart(s, node)
    [] OTHER -> appendChild(s, currentElement(s), node)

\* injectStatement that lets a mustache in a tag name through
injectStatement_TagNameChild(s, node) ==
  CASE s.state \in {"tagOpen"} ->
         Throw(s, generateSyntaxError("Cannot use mustaches in an elements tagname",
                                      <<>>, s.nodes[node].loc))
    [] s.state = "beforeAttributeName" ->
         [s EXCEPT !.cur.modifiers = Append(@, node)]
    [] s.state \in {"attributeName", "afterAttributeName"} ->
         LET t == finishAttributeValue(beginAttributeValue(s, FALSE))
         IN transitionTo([t EXCEPT !.cur.modifiers = Append(@, node)],
                         "beforeAttributeName")
    [] s.state = "afterAttributeValueQuoted" ->
         transitionTo([s EXCEPT !.cur.modifiers = Append(@, node)],
                      "beforeAttributeName")
    [] s.state = "beforeAttributeValue" ->
         transitionTo(appendDynamicAttributeValuePart(
                        beginAttributeValue(s, FALSE), node),
                      "attributeValueUnquoted")
    [] s.state \in {"attributeValueDoubleQuoted", "attributeValueSingleQuoted",
                    "attributeValueUnquoted"} ->
         appendDynamicAttributeValuePart(s, node)
    [] OTHER -> appendChild(s, currentElement(s), node)

injectStatement(s, node) ==
  CASE s.state \in {"tagOpen", "tagName"} ->
         Throw(s, generateSyntaxError("Cannot use mustaches in an elements tagname",
                                      <<>>, s.nodes[node].loc))
    [] s.state = "beforeAttributeName" ->
         [s EXCEPT !.cur.modifiers = Append(@, node)]
    [] s.state \in {"attributeName", "afterAttributeName"} ->
         LET t == finishAttributeValue(beginAttributeValue(s, FALSE))
         IN transitionTo([t EXCEPT !.cur.modifiers = Append(@, node)],
                         "beforeAttributeName")
    [] s.state = "afterAttributeValueQuoted" ->
         transitionTo([s EXCEPT !.cur.modifiers = Append(@, node)],
                      "beforeAttributeName")
    [] s.state = "beforeAttributeValue" ->
         transitionTo(appendDynamicAttributeValuePart(
                        beginAttributeValue(s, FALSE), node),
                      "attributeValueUnquoted")
    [] s.state \in {"attributeValueDoubleQuoted", "attributeValueSingleQuoted",
                    "attributeValueUnquoted"} ->
         appendDynamicAttributeValuePart(s, node)
    [] OTHER -> appendChild(s, currentElement(s), node)

\* the value a handler returns: the node it made, unless it raised
Returning(s, node) == IF Failed(s) THEN s ELSE [s EXCEPT !.ret = node]

\* MustacheStatement that puts a literal's empty hash at the literal's start
MustacheStatement_HashAtStart(s, rawMustache) ==
  IF s.state = "comment"
  THEN appendToCommentData(s, sourceForNode(rawMustache.loc))
  ELSE
    LET call ==
          IF isHBSLiteral(rawMustache.path)
          THEN [err |-> NoError, path |-> acceptNode(rawMustache.path),
                params |-> <<>>,
                hash |-> [type |-> "Hash", err |-> NoError, pairs |-> <<>>,
                          loc |-> collapse(spanFor(rawMustache.path.loc), "start")]]
          ELSE acceptCallNodes(rawMustache)
        t == NewNode(s, [BlankNode EXCEPT
               !.type = "MustacheStatement", !.path = call.path,
               !.params = call.params, !.hash = call.hash,
               !.trusting = ~rawMustache.escaped,
               !.loc = spanFor(rawMustache.loc)])
    IN Returning(injectStatement(t, t.made), t.made)

\* MustacheStatement without the check for the comment state
MustacheStatement_NoCommentCheck(s, rawMustache) ==
  LET call == acceptCallNodes(rawMustache)
      t == NewNode(s, [BlankNode EXCEPT
             !.type = "MustacheStatement", !.path = call.path,
             !.params = call.params, !.hash = call.hash,
             !.trusting = ~rawMustache.escaped,
             !.loc = spanFor(rawMustache.loc)])
  IN Returning(injectStatement(t, t.made), t.made)

MustacheStatement(s, rawMustache) ==
  IF s.state = "comment"
  THEN appendToCommentData(s, sourceForNode(rawMustache.loc))
  ELSE
    LET call ==
          IF isHBSLiteral(rawMustache.path)
          THEN [err |-> NoError, path |-> acceptNode(rawMustache.path),
                params |-> <<>>,
                hash |-> [type |-> "Hash", err |-> NoError, pairs |-> <<>>,
                          loc |-> collapse(spanFor(rawMustache.path.loc), "end")]]
          ELSE acceptCallNodes(rawMustache)
    IN IF call.err.kind # "none" THEN Throw(s, call.err)
       ELSE LET t == NewNode(s, [BlankNode EXCEPT
                       !.type = "MustacheStatement", !.path = call.path,
                       !.params = call.params, !.hash = call.hash,
                       !.trusting = ~rawMustache.escaped,
                       !.loc = spanFor(rawMustache.loc)])
            IN Returning(injectStatement(t, t.made), t.made)

ContentStatement(s, content) ==
  flushData(tokenizePart([s EXCEPT !.tokPos = content.loc.start.column],
                         content.value))

\* CommentStatement that also takes a comment inside an attribute name
CommentStatement_InAttributeName(s, rawComment) ==
  IF s.state = "comment"
  THEN appendToCommentData(s, sourceForNode(rawComment.loc))
  ELSE
    LET t == NewNode(s, [BlankNode EXCEPT !.type = "MustacheCommentStatement",
                           !.chars = rawComment.value,
                           !.loc = spanFor(rawComment.loc)])
        comment == t.made
    IN CASE s.state \in {"beforeAttributeName", "attributeName",
                         "afterAttributeName"} ->
              Returning([t EXCEPT !.cur.comments = Append(@, comment)], comment)
         [] s.state \in {"beforeData", "data"} ->
              Returning(appendChild(t, currentElement(t), comment), comment)
         [] OTHER ->
              Throw(t, generateSyntaxError(
                "Using a Handlebars comment when in this state is not supported",
                s.state, spanFor(rawComment.loc)))

CommentStatement(s, rawComment) ==
  IF s.state = "comment"
  THEN appendToCommentData(s, sourceForNode(rawComment.loc))
  ELSE
    LET t == NewNode(s, [BlankNode EXCEPT !.type = "MustacheCommentStatement",
                           !.chars = rawComment.value,
                           !.loc = spanFor(rawComment.loc)])
        comment == t.made
    IN CASE s.state \in {"beforeAttributeName", "afterAttributeName"} ->
              Returning([t EXCEPT !.cur.comments = Append(@, comment)], comment)
         [] s.state \in {"beforeData", "data"} ->
              Returning(appendChild(t, currentElement(t), comment), comment)
         [] OTHER ->
              Throw(t, generateSyntaxError(
                "Using a Handlebars comment when in this state is not supported",
                s.state, spanFor(rawComment.loc)))

\* PartialStatement that appends to the current element in every state
PartialStatement_AlwaysChild(s, partial) ==
  LET call == acceptCallNodes([path |-> partial.name, params |-> partial.params,
                               hash |-> partial.hash])
      t == NewNode(s, [BlankNode EXCEPT
             !.type = "PartialStatement", !.path = call.path,
             !.params = call.params, !.hash = call.hash,
             !.loc = spanFor(partial.loc)])
  IN Returning(appendChild(t, currentElement(t), t.made), t.made)

PartialStatement(s, partial) ==
  LET call == acceptCallNodes([path |-> partial.name, params |-> partial.params,
                               hash |-> partial.hash])
  IN IF call.err.kind # "none" THEN Throw(s, call.err)
     ELSE LET t == NewNode(s, [BlankNode EXCEPT
                     !.type = "PartialStatement", !.path = call.path,
                     !.params = call.params, !.hash = call.hash,
                     !.loc = spanFor(partial.loc)])
          IN Returning(injectStatement(t, t.made), t.made)

\* what a Program visit returns into: the root, or the block that owns the body
NoCall == [err |-> NoError, path |-> Expr, params |-> <<>>, hash |-> NoHash]

NoBody == [present |-> FALSE, empty |-> TRUE, loc |-> Loc(0, 0)]

RootCont ==
  [kind |-> "template", call |-> NoCall, loc |-> Loc(0, 0),
   inverse |-> NoBody, program |-> 0]

isTopLevel(s) == Len(s.stack) = 0

RECURSIVE Program(_, _, _)
RECURSIVE Return(_, _, _)

\* the tail of BlockStatement, after both bodies are translated
FinishBlock(s, cont, program, inverse) ==
  LET t == NewNode(s, [BlankNode EXCEPT
                  !.type = "BlockStatement", !.path = cont.call.path,
                  !.params = cont.call.params, !.hash = cont.call.hash,
                  !.program = program, !.inverse = inverse,
                  !.loc = spanFor(cont.loc)])
  IN Returning(appendChild(t, currentElement(t), t.made), t.made)

\* the tail of PartialBlockStatement, after its body is translated
FinishPartialBlock(s, cont, program) ==
  LET t == NewNode(s, [BlankNode EXCEPT
                  !.type = "PartialBlockStatement", !.path = cont.call.path,
                  !.params = cont.call.params, !.hash = cont.call.hash,
                  !.program = program, !.loc = spanFor(cont.loc)])
  IN Returning(appendChild(t, currentElement(t), t.made), t.made)

Return(s, cont, node) ==
  CASE cont.kind = "template" ->
         [s EXCEPT !.pc = "done", !.result = node, !.ret = node]
    [] cont.kind = "program" ->
         IF cont.inverse.present
         THEN Program(s, cont.inverse,
                      [cont EXCEPT !.kind = "inverse", !.program = node])
         ELSE FinishBlock(s, cont, node, 0)
    [] cont.kind = "inverse" -> FinishBlock(s, cont, cont.program, node)
    [] OTHER -> FinishPartialBlock(s, cont, node)

\* Program up to its loop: the node is made and pushed; an empty body returns
Program(s, program, cont) ==
  LET t == NewNode(s, [BlankNode EXCEPT
                  !.type = IF isTopLevel(s) THEN "Template" ELSE "Block",
                  !.loc = spanFor(program.loc)])
      node == t.made
      pushed == [t EXCEPT !.stack = Append(@, node)]
  IN IF program.empty
     THEN LET popped == Top(pushed.stack)
              u == [pushed EXCEPT !.stack = Pop(@)]
          IN Return([u EXCEPT !.rets = Append(@,
                       [node |-> node, value |-> popped, entry |-> s.stack,
                        exit |-> u.stack])],
                    cont, popped)
     ELSE [pushed EXCEPT !.pc = "body",
                         !.frames = Append(@, [node |-> node, cont |-> cont,
                                               entry |-> s.stack,
                                               visited |-> FALSE])]

\* ProgramExit reporting the body's own node instead of the popped element
ProgramExit_ReportsBody(s) ==
  LET frame == Top(s.frames)
      node == frame.node
      poppedNode == Top(s.stack)
      t == [s EXCEPT !.stack = Pop(@)]
  IN IF poppedNode # node
     THEN Throw(t, generateSyntaxError("Unclosed element", s.nodes[node].tag,
                                       s.nodes[node].loc))
     ELSE Return([t EXCEPT !.frames = Pop(@),
                           !.rets = Append(@, [node |-> node, value |-> node,
                                               entry |-> frame.entry,
                                               exit |-> t.stack])],
                 frame.cont, node)

\* ProgramExit without the balance check
ProgramExit_Unchecked(s) ==
  LET frame == Top(s.frames)
      node == frame.node
      t == [s EXCEPT !.stack = Pop(@)]
  IN Return([t EXCEPT !.frames = Pop(@),
                      !.rets = Append(@, [node |-> node, value |-> node,
                                          entry |-> frame.entry,
                                          exit |-> t.stack])],
            frame.cont, node)

\* Program after its loop: the balance check
ProgramExit(s) ==
  LET frame == Top(s.frames)
      node == frame.node
  IN IF Len(s.stack) = 0
     THEN Throw(s, [kind |-> "TypeError", msg |-> "poppedNode is undefined",
                    arg |-> <<>>, loc |-> Loc(0, 0)])
     ELSE
       LET poppedNode == Top(s.stack)
           t == [s EXCEPT !.stack = Pop(@)]
       IN IF poppedNode # node
          THEN Throw(t, generateSyntaxError("Unclosed element",
                                            s.nodes[poppedNode].tag,
                                            s.nodes[poppedNode].loc))
          ELSE Return([t EXCEPT !.frames = Pop(@),
                                !.rets = Append(@,
                                  [node |-> node, value |-> node,
                                   entry |-> frame.entry, exit |-> t.stack])],
                      frame.cont, node)

Backfill(program) ==
  IF program.loc = MissingLoc
  THEN [program EXCEPT !.loc = NON_EXISTENT_LOCATION]
  ELSE program

\* BlockStatement that checks the tokenizer state after it entered the body
BlockStatement_ChecksLate(s, block) ==
  IF s.state = "comment"
  THEN appendToCommentData(s, sourceForNode(block.loc))
  ELSE LET call == acceptCallNodes(block)
           t == Program(s, Backfill(block.program),
                  [kind |-> "program", call |-> call, loc |-> block.loc,
                   inverse |-> IF block.inverse.present
                               THEN Backfill(block.inverse) ELSE block.inverse,
                   program |-> 0])
       IN IF s.state # "data" /\ s.state # "beforeData"
          THEN Throw(t, generateSyntaxError(
                 "A block may only be used inside an HTML element or another block.",
                 <<>>, spanFor(block.loc)))
          ELSE t

BlockStatement(s, block) ==
  IF s.state = "comment"
  THEN appendToCommentData(s, sourceForNode(block.loc))
  ELSE IF s.state # "data" /\ s.state # "beforeData"
  THEN Throw(s, generateSyntaxError(
         "A block may only be used inside an HTML element or another block.",
         <<>>, spanFor(block.loc)))
  ELSE LET call == acceptCallNodes(block)
       IN IF call.err.kind # "none" THEN Throw(s, call.err)
          ELSE Program(s, Backfill(block.program),
                 [kind |-> "program", call |-> call, loc |-> block.loc,
                  inverse |-> IF block.inverse.present
                              THEN Backfill(block.inverse) ELSE block.inverse,
                  program |-> 0])

PartialBlockStatement(s, partialBlock) ==
  LET call == acceptCallNodes([path |-> partialBlock.name,
                               params |-> partialBlock.params,
                               hash |-> partialBlock.hash])
  IN IF call.err.kind # "none" THEN Throw(s, call.err)
     ELSE Program(s, partialBlock.program,
            [kind |-> "partialBlock", call |-> call, loc |-> partialBlock.loc,
             inverse |-> NoBody, program |-> 0])

----------------------------------------------------------------------------
\* The CST the Handlebars parser hands over, drawn one statement at a time

PathCst(original, parts, data, loc) ==
  [type |-> "PathExpression", original |-> original, parts |-> parts,
   data |-> data, loc |-> loc]

StringCst(value, loc) == [type |-> "StringLiteral", value |-> value, loc |-> loc]

NoHashCst == [type |-> "none"]

\* {{x}} and {{"s"}}
MustacheCst(lit, escaped, p) ==
  [type |-> "MustacheStatement",
   path |-> IF lit THEN StringCst(<<"s">>, Loc(p + 2, p + 5))
            ELSE PathCst(<<"x">>, << <<"x">> >>, FALSE, Loc(p + 2, p + 3)),
   params |-> <<>>, hash |-> NoHashCst, escaped |-> escaped,
   loc |-> Loc(p, p + (IF lit THEN 7 ELSE 5))]

\* {{!c}}
CommentCst(p) ==
  [type |-> "CommentStatement", value |-> <<"c">>, loc |-> Loc(p, p + 6)]

\* {{>x}}
PartialCst(p) ==
  [type |-> "PartialStatement",
   name |-> PathCst(<<"x">>, << <<"x">> >>, FALSE, Loc(p + 3, p + 4)),
   params |-> <<>>, hash |-> NoHashCst, loc |-> Loc(p, p + 6)]

\* a body: the Handlebars parser leaves the loc of an empty block body unset
BodyCst(present, empty, p) ==
  [present |-> present, empty |-> empty,
   loc |-> IF empty THEN MissingLoc ELSE Loc(p, p)]

\* {{#x}}...{{/x}}, with {{else}} when inverse is not "none"
BlockCst(emptyProgram, inverse, p) ==
  [type |-> "BlockStatement",
   path |-> PathCst(<<"x">>, << <<"x">> >>, FALSE, Loc(p + 3, p + 4)),
   params |-> <<>>, hash |-> NoHashCst,
   program |-> BodyCst(TRUE, emptyProgram, p + 6),
   inverse |-> BodyCst(inverse # "none", inverse # "body", p + 6),
   loc |-> Loc(p, p + 6)]

\* {{#>x}}...{{/x}}
PartialBlockCst(emptyProgram, p) ==
  [type |-> "PartialBlockStatement",
   name |-> PathCst(<<"x">>, << <<"x">> >>, FALSE, Loc(p + 4, p + 5)),
   params |-> <<>>, hash |-> NoHashCst,
   program |-> [present |-> TRUE, empty |-> emptyProgram, loc |-> Loc(p + 7, p + 7)],
   loc |-> Loc(p, p + 7)]

\* the texts of ContentStatements
Contents ==
  {<<"a">>, <<">">>,
   <<"<">>, <<"<", "a">>, <<"<", "a", " ">>, <<"<", "b", " ", "a">>,
   <<"<", "b", " ", "a", " ">>, <<"<", "b", " ", "a", "=">>,
   <<"<", "b", " ", "a", "=", "\"">>, <<"<", "b", " ", "a", "=", "'">>,
   <<"<", "b", " ", "a", "=", "a">>, <<"<", "b", " ", "a", "=", "\"", "\"">>,
   <<"<", "/">>, <<"<", "!", "--", "a">>, <<"--", ">">>,
   <<"<", "a", ">">>, <<"<", "b", ">">>, <<"<", "/", "a", ">">>}

RECURSIVE Width(_)
Width(text) == IF text = <<>> THEN 0 ELSE CharLen(Head(text)) + Width(Tail(text))

----------------------------------------------------------------------------
\* The state machine

ParserInit ==
  /\ tokenizer = [state |-> "beforeData", pos |-> 0, tagStart |-> 0]
  /\ elementStack = <<>>
  /\ nodes = <<>>
  /\ currentNode = NoCurrent
  /\ currentAttr = NoAttr
  /\ error = NoError
  /\ frames = <<>>
  /\ pc = "start"
  /\ result = 0
  /\ steps = 0
  /\ srcPos = 0
  /\ last = [op |-> "none", state |-> "beforeData", loc |-> Loc(0, 0),
             ret |-> 0, made |-> 0, lit |-> FALSE]
  /\ rets = <<>>
  /\ prev = [tokenizer |-> tokenizer, elementStack |-> elementStack,
             nodes |-> nodes, currentNode |-> currentNode,
             currentAttr |-> currentAttr, frames |-> frames]

\* no expression is being translated outside a parse
ExprIdle == cst = <<>> /\ ast = <<>>

AttrIdle == written = <<>>

BuilderIdle == builderAst = <<>> /\ pos = 0 /\ built = <<>>

FnIdle == positional = <<>> /\ calls = <<>>

StdIdle == running = <<>> /\ emitted = <<>>

\* no manager in use: a production build, nothing cached, nothing called
ManagerIdle ==
  /\ helperManagerDelegates = <<>>
  /\ undefinedDelegate = <<>>
  /\ DEBUG = FALSE
  /\ factoryCalls = <<>>
  /\ delegateCalls = <<>>

Init ==
  /\ ParserInit
  /\ ManagerIdle
  /\ ExprIdle
  /\ AttrIdle
  /\ BuilderIdle
  /\ FnIdle
  /\ StdIdle

Set(s) ==
  /\ tokenizer' = [state |-> s.state, pos |-> s.tokPos, tagStart |-> s.tagStart]
  /\ elementStack' = s.stack
  /\ nodes' = s.nodes
  /\ currentNode' = s.cur
  /\ currentAttr' = s.attr
  /\ error' = s.err
  /\ frames' = s.frames
  /\ pc' = s.pc
  /\ result' = s.result
  /\ rets' = s.rets

Did(s, op, loc, width, lit) ==
  /\ Set(s)
  /\ srcPos' = srcPos + width
  /\ last' = [op |-> op, state |-> tokenizer.state, loc |-> loc,
              ret |-> s.ret, made |-> s.made, lit |-> lit]
  /\ prev' = [tokenizer |-> tokenizer, elementStack |-> elementStack,
              nodes |-> nodes, currentNode |-> currentNode,
              currentAttr |-> currentAttr, frames |-> frames]
  /\ UNCHANGED <<exprVars, attrVars, builderVars, fnVars, stdVars,
               managerVars>>

\* the loop of Program is at a statement of the innermost body
Visiting == pc = "body" /\ steps < MaxStmts

InBody == [Cur EXCEPT !.frames[Len(frames)].visited = TRUE]

Parse ==
  /\ pc = "start"
  /\ \E empty \in BOOLEAN :
       Did(Program(Cur, [present |-> TRUE, empty |-> empty,
                         loc |-> Loc(srcPos, srcPos)], RootCont),
           "Program", Loc(srcPos, srcPos), 0, FALSE)
  /\ steps' = steps

VisitContentStatement ==
  /\ Visiting
  /\ \E text \in Contents :
       LET loc == Loc(srcPos, srcPos + Width(text))
           s == ContentStatement(InBody, [value |-> text, loc |-> loc])
       IN /\ ~s.reject
          /\ Did(s, "ContentStatement", loc, Width(text), FALSE)
  /\ steps' = steps + 1

VisitMustacheStatement ==
  /\ Visiting
  /\ \E lit \in BOOLEAN :
       LET raw == MustacheCst(lit, TRUE, srcPos)
       IN Did(MustacheStatement(InBody, raw), "MustacheStatement", raw.loc,
              Width(<<>>) + raw.loc.end.column - srcPos, lit)
  /\ steps' = steps + 1

VisitCommentStatement ==
  /\ Visiting
  /\ LET raw == CommentCst(srcPos)
     IN Did(CommentStatement(InBody, raw), "CommentStatement", raw.loc, 6, FALSE)
  /\ steps' = steps + 1

VisitPartialStatement ==
  /\ Visiting
  /\ LET raw == PartialCst(srcPos)
     IN Did(PartialStatement(InBody, raw), "PartialStatement", raw.loc, 6, FALSE)
  /\ steps' = steps + 1

VisitBlockStatement ==
  /\ Visiting
  /\ \E emptyProgram \in BOOLEAN, inverse \in {"none", "empty", "body"} :
       LET raw == BlockCst(emptyProgram, inverse, srcPos)
       IN Did(BlockStatement(InBody, raw), "BlockStatement", raw.loc, 6, FALSE)
  /\ steps' = steps + 1

VisitPartialBlockStatement ==
  /\ Visiting
  /\ \E emptyProgram \in BOOLEAN :
       LET raw == PartialBlockCst(emptyProgram, srcPos)
       IN Did(PartialBlockStatement(InBody, raw), "PartialBlockStatement",
              raw.loc, 7, FALSE)
  /\ steps' = steps + 1

\* the body of the innermost Program visit has no more statements
ProgramEnd ==
  /\ pc = "body"
  /\ Top(frames).visited
  /\ Did(ProgramExit(Cur), "ProgramEnd", Loc(srcPos, srcPos), 0, FALSE)
  /\ steps' = steps

Next ==
  \/ Parse
  \/ VisitContentStatement
  \/ VisitMustacheStatement
  \/ VisitCommentStatement
  \/ VisitPartialStatement
  \/ VisitBlockStatement
  \/ VisitPartialBlockStatement
  \/ ProgramEnd

Spec == Init /\ [][Next]_vars

----------------------------------------------------------------------------
\* Properties

Range(seq) == {seq[i] : i \in 1..Len(seq)}

\* the last step was the end of a Program visit's loop
AtProgramEnd == last.op = "ProgramEnd"

\* C1: at the end of a non-empty body, a popped node other than the body's
\* own node raises "Unclosed element" with the popped element's tag and span;
\* otherwise (and for an empty body) Program returns its node and raises nothing.
C1_UnclosedElement ==
  /\ AtProgramEnd =>
       /\ prev.elementStack # <<>>
       /\ LET node == Top(prev.frames).node
              poppedNode == Top(prev.elementStack)
          IN IF poppedNode # node
             THEN /\ nodes[poppedNode].type = "ElementNode"
                  /\ error.kind = "SyntaxError"
                  /\ error.msg = "Unclosed element"
                  /\ error.arg = nodes[poppedNode].tag
                  /\ error.loc = nodes[poppedNode].loc
                  /\ rets = <<>>
             ELSE /\ error = NoError
                  /\ rets # <<>>
                  /\ rets[1].node = node
  /\ \A r \in Range(rets) : r.value = r.node /\ error = NoError

C1_Witness ==
  /\ AtProgramEnd
  /\ Top(prev.elementStack) # Top(prev.frames).node
  /\ error.arg = <<"b">>
  /\ Len(prev.frames) = 2

\* C2: a Program visit that returns leaves the element stack as it found it,
\* and when the root Template is returned the stack is empty.
C2_StackBalanced ==
  /\ \A r \in Range(rets) : r.exit = r.entry
  /\ pc = "done" => elementStack = <<>> /\ nodes[result].type = "Template"

C2_Witness ==
  /\ pc = "done"
  /\ \E i \in DOMAIN nodes : nodes[i].type = "ElementNode"
  /\ \E i \in DOMAIN nodes : nodes[i].type = "Block"

\* the last step built a mustache or partial node and injected it
Injected ==
  /\ last.op \in {"MustacheStatement", "PartialStatement"}
  /\ last.made # 0

Before == prev.tokenizer.state

IsChild(n) == \E i \in DOMAIN nodes : n \in Range(nodes[i].children)

AttrsHold(attrs, n) ==
  \E k \in DOMAIN attrs : \E j \in DOMAIN attrs[k].parts : attrs[k].parts[j].id = n

IsValuePart(n) ==
  \/ \E j \in DOMAIN currentAttr.parts : currentAttr.parts[j].id = n
  \/ AttrsHold(currentNode.attributes, n)
  \/ \E i \in DOMAIN nodes : AttrsHold(nodes[i].attributes, n)

IsModifier(n) ==
  \/ n \in Range(currentNode.modifiers)
  \/ \E i \in DOMAIN nodes : n \in Range(nodes[i].modifiers)

\* the nodes that existed before the last step are as they were
NodesKept == SubSeq(nodes, 1, Len(prev.nodes)) = prev.nodes

\* C3: injected in beforeAttributeName, attributeName, afterAttributeName or
\* afterAttributeValueQuoted, the node goes to the end of the start tag's
\* modifiers and nowhere else, the tokenizer ends in beforeAttributeName, and in
\* attributeName/afterAttributeName an empty unquoted attribute is finished first.
C3_ModifierInjection ==
  (Injected /\ Before \in {"beforeAttributeName", "attributeName",
                           "afterAttributeName", "afterAttributeValueQuoted"}) =>
    /\ error = NoError
    /\ currentNode.modifiers = Append(prev.currentNode.modifiers, last.made)
    /\ ~IsChild(last.made)
    /\ ~IsValuePart(last.made)
    /\ NodesKept
    /\ tokenizer.state = "beforeAttributeName"
    /\ IF Before \in {"attributeName", "afterAttributeName"}
       THEN currentNode.attributes =
              Append(prev.currentNode.attributes,
                     [name |-> prev.currentAttr.name, parts |-> <<>>,
                      isQuoted |-> FALSE, isDynamic |-> FALSE])
       ELSE currentNode.attributes = prev.currentNode.attributes

C3_Witness ==
  /\ Injected
  /\ Before = "afterAttributeName"
  /\ last.op = "MustacheStatement"
  /\ currentNode.modifiers = <<last.made>>
  /\ Len(currentNode.attributes) = 1

\* the parts of an attribute once its pending text run is pushed
Flushed(attr) ==
  IF attr.hasPart
  THEN Append(attr.parts, [type |-> "TextNode", chars |-> attr.currentPart, id |-> 0])
  ELSE attr.parts

DynamicPart(n) == [type |-> "Dynamic", chars |-> <<>>, id |-> n]

ValueStates ==
  {"attributeValueDoubleQuoted", "attributeValueSingleQuoted",
   "attributeValueUnquoted"}

\* C4: injected in beforeAttributeValue, an unquoted value is begun, the node is
\* the last value part and the tokenizer goes to attributeValueUnquoted; injected
\* in an attribute value state, the node is the last value part and the tokenizer
\* stays; in all four the node is no modifier and no child.
C4_ValuePartInjection ==
  (Injected /\ Before \in ValueStates \cup {"beforeAttributeValue"}) =>
    /\ error = NoError
    /\ ~IsModifier(last.made)
    /\ ~IsChild(last.made)
    /\ NodesKept
    /\ currentNode = prev.currentNode
    /\ currentAttr.parts # <<>>
    /\ currentAttr.parts[Len(currentAttr.parts)] = DynamicPart(last.made)
    /\ IF Before = "beforeAttributeValue"
       THEN /\ currentAttr.isQuoted = FALSE
            /\ currentAttr.parts = Append(prev.currentAttr.parts,
                                          DynamicPart(last.made))
            /\ tokenizer.state = "attributeValueUnquoted"
       ELSE /\ currentAttr.parts = Append(Flushed(prev.currentAttr),
                                          DynamicPart(last.made))
            /\ tokenizer = prev.tokenizer

C4_Witness ==
  /\ Injected
  /\ Before = "beforeAttributeValue"
  /\ tokenizer.state = "attributeValueUnquoted"
  /\ currentAttr.parts = <<DynamicPart(last.made)>>

\* C5: injected in tagOpen or tagName, the mustache raises "Cannot use mustaches
\* in an elements tagname" with its own span, is attached nowhere, and the
\* tokenizer state is unchanged.
C5_TagNameInjection ==
  (Injected /\ Before \in {"tagOpen", "tagName"}) =>
    /\ error = [kind |-> "SyntaxError",
                msg |-> "Cannot use mustaches in an elements tagname",
                arg |-> <<>>, loc |-> spanFor(last.loc)]
    /\ nodes[last.made].loc = spanFor(last.loc)
    /\ ~IsModifier(last.made)
    /\ ~IsValuePart(last.made)
    /\ ~IsChild(last.made)
    /\ NodesKept
    /\ tokenizer = prev.tokenizer
    /\ currentNode = prev.currentNode
    /\ currentAttr = prev.currentAttr
    /\ elementStack = prev.elementStack

C5_Witness ==
  /\ Injected
  /\ Before = "tagName"
  /\ last.op = "MustacheStatement"
  /\ error.kind = "SyntaxError"
  /\ currentNode.name = <<"a">>

\* the Program visits in progress before the last step, its statement counted
FramesKept ==
  frames = [prev.frames EXCEPT ![Len(prev.frames)].visited = TRUE]

IsTagComment(n) ==
  \/ n \in Range(currentNode.comments)
  \/ \E i \in DOMAIN nodes : n \in Range(nodes[i].comments)

\* C6: a BlockStatement outside comment, data and beforeData raises "A block may
\* only be used inside an HTML element or another block." with the block's span
\* before anything is translated: no node is made, and the element stack, the
\* children and the tokenizer state are unchanged.
C6_BlockPlacement ==
  (last.op = "BlockStatement" /\ Before \notin {"comment", "data", "beforeData"}) =>
    /\ error = [kind |-> "SyntaxError",
                msg |-> "A block may only be used inside an HTML element or another block.",
                arg |-> <<>>, loc |-> spanFor(last.loc)]
    /\ last.made = 0
    /\ nodes = prev.nodes
    /\ elementStack = prev.elementStack
    /\ tokenizer = prev.tokenizer
    /\ currentNode = prev.currentNode
    /\ currentAttr = prev.currentAttr
    /\ FramesKept

C6_Witness ==
  /\ last.op = "BlockStatement"
  /\ Before = "attributeValueDoubleQuoted"
  /\ error.kind = "SyntaxError"
  /\ Len(elementStack) = 1

\* C7: in the comment state a BlockStatement, MustacheStatement or
\* CommentStatement appends its raw source text to the comment's data, returns
\* no node, and changes nothing else.
C7_InsideComment ==
  (last.op \in {"BlockStatement", "MustacheStatement", "CommentStatement"}
     /\ Before = "comment") =>
    /\ currentNode = [prev.currentNode EXCEPT
                        !.chars = Append(@, sourceForNode(last.loc))]
    /\ currentNode.type = "CommentStatement"
    /\ last.ret = 0
    /\ last.made = 0
    /\ error = NoError
    /\ nodes = prev.nodes
    /\ elementStack = prev.elementStack
    /\ tokenizer = prev.tokenizer
    /\ currentAttr = prev.currentAttr
    /\ FramesKept

C7_Witness ==
  /\ last.op = "MustacheStatement"
  /\ Before = "comment"
  /\ Len(currentNode.chars) = 3
  /\ currentNode.chars[2].k = "src"

\* C8: outside the comment state a CommentStatement goes to the start tag's
\* comments in beforeAttributeName and afterAttributeName, to the current
\* element's children in data and beforeData, and in any other state raises an
\* error that names the state and is attached nowhere.
C8_CommentRouting ==
  (last.op = "CommentStatement" /\ Before # "comment") =>
    /\ last.made = Len(prev.nodes) + 1
    /\ nodes[last.made].type = "MustacheCommentStatement"
    /\ NodesKept \/ Before \in {"data", "beforeData"}
    /\ CASE Before \in {"beforeAttributeName", "afterAttributeName"} ->
              /\ error = NoError
              /\ currentNode.comments = Append(prev.currentNode.comments, last.made)
              /\ ~IsChild(last.made)
         [] Before \in {"data", "beforeData"} ->
              /\ error = NoError
              /\ nodes[Top(elementStack)].children =
                   Append(prev.nodes[Top(prev.elementStack)].children, last.made)
              /\ elementStack = prev.elementStack
              /\ ~IsTagComment(last.made)
         [] OTHER ->
              /\ error.kind = "SyntaxError"
              /\ error.msg = "Using a Handlebars comment when in this state is not supported"
              /\ error.arg = Before
              /\ error.loc = spanFor(last.loc)
              /\ ~IsChild(last.made)
              /\ ~IsTagComment(last.made)

C8_Witness ==
  /\ last.op = "CommentStatement"
  /\ Before = "afterAttributeName"
  /\ currentNode.comments = <<last.made>>
  /\ currentNode.type = "StartTag"

LastChildOfCurrent(n) ==
  /\ elementStack # <<>>
  /\ nodes[Top(elementStack)].children # <<>>
  /\ LET children == nodes[Top(elementStack)].children
     IN children[Len(children)] = n

\* the last step built the node of a partial block
PartialBlockMade ==
  /\ last.made # 0
  /\ nodes[last.made].type = "PartialBlockStatement"

TagNameError ==
  [kind |-> "SyntaxError", msg |-> "Cannot use mustaches in an elements tagname",
   arg |-> <<>>, loc |-> spanFor(last.loc)]

C9_WitnessBlock ==
  /\ PartialBlockMade
  /\ last.op = "ProgramEnd"
  /\ tokenizer.state = "tagName"
  /\ LastChildOfCurrent(last.made)

\* the last step built the node of a mustache whose call target is a literal
LiteralMustacheMade ==
  /\ last.op = "MustacheStatement"
  /\ last.lit
  /\ last.made # 0

\* the span of the literal of the mustache at last.loc
LiteralSpan ==
  spanFor(Loc(last.loc.start.column + 2, last.loc.start.column + 5))

LiteralShape(type) ==
  /\ nodes[last.made].type = type
  /\ nodes[last.made].path.type = "StringLiteral"
  /\ nodes[last.made].path.value = <<"s">>
  /\ nodes[last.made].path.loc = LiteralSpan
  /\ nodes[last.made].params = <<>>
  /\ nodes[last.made].hash.pairs = <<>>
  /\ nodes[last.made].hash.loc.start = LiteralSpan.end
  /\ nodes[last.made].hash.loc.end = LiteralSpan.end

\* C10 as stated: a mustache whose call target is a bare literal yields a
\* ContentMustache node, not a MustacheStatement, that carries the literal, no
\* params, and an empty hash of zero width at the end of the literal's span.
C10_LiteralIsContentMustache ==
  LiteralMustacheMade => LiteralShape("ContentMustache")

\* C10, amended: the node is a MustacheStatement whose path is the literal, with
\* no params and an empty hash of zero width at the end of the literal's span.
C10_LiteralMustache ==
  LiteralMustacheMade =>
    /\ LiteralShape("MustacheStatement")
    /\ nodes[last.made].loc = spanFor(last.loc)
    /\ last.made = Len(prev.nodes) + 1

C10_Witness ==
  /\ LiteralMustacheMade
  /\ Before = "beforeData"
  /\ LastChildOfCurrent(last.made)
  /\ nodes[last.made].hash.loc.start.column = 5

----------------------------------------------------------------------------
\* Expression translation on its own: one CST call node, visited repeatedly

\* Visits made of one CST node.
MaxVisits == 2

\* Positional parameters of a call.
MaxParams == 2

\* Pairs of a hash.
MaxPairs == 2

\* The paths the Handlebars parser produces: it leaves a leading this out of
\* parts, and keeps the sigil of a named argument in original only.
PathShapes ==
  {[original |-> <<"t", "h", "i", "s">>, parts |-> <<>>, data |-> FALSE],
   [original |-> <<"t", "h", "i", "s", ".", "y">>, parts |-> << <<"y">> >>,
    data |-> FALSE],
   [original |-> <<"t", "h", "i", "s", "x">>,
    parts |-> << <<"t", "h", "i", "s", "x">> >>, data |-> FALSE],
   [original |-> <<"x">>, parts |-> << <<"x">> >>, data |-> FALSE],
   [original |-> <<"x", "x", ".", "y">>, parts |-> << <<"x", "x">>, <<"y">> >>,
    data |-> FALSE],
   [original |-> <<"x", "/", "y">>, parts |-> << <<"x">>, <<"y">> >>,
    data |-> FALSE],
   [original |-> <<"@">>, parts |-> <<>>, data |-> TRUE],
   [original |-> <<"@", "x">>, parts |-> << <<"x">> >>, data |-> TRUE],
   [original |-> <<"@", "x", "x", ".", "y">>,
    parts |-> << <<"x", "x">>, <<"y">> >>, data |-> TRUE]}

PathAt(shape, p) ==
  PathCst(shape.original, shape.parts, shape.data,
          Loc(p, p + Len(shape.original)))

\* x.y, "s" and (x "s")
ExprAt(kind, p) ==
  CASE kind = "path" ->
         PathCst(<<"x", ".", "y">>, << <<"x">>, <<"y">> >>, FALSE, Loc(p, p + 3))
    [] kind = "lit" -> StringCst(<<"s">>, Loc(p, p + 3))
    [] kind = "sexpr" ->
         [type |-> "SubExpression",
          path |-> PathCst(<<"x">>, << <<"x">> >>, FALSE, Loc(p + 1, p + 2)),
          params |-> <<StringCst(<<"s">>, Loc(p + 3, p + 6))>>,
          hash |-> NoHashCst, loc |-> Loc(p, p + 7)]

End(e) == e.loc.end.column

\* expressions one space apart
RECURSIVE ExprsAt(_, _)
ExprsAt(kinds, p) ==
  IF kinds = <<>> THEN <<>>
  ELSE LET e == ExprAt(Head(kinds), p)
       IN <<e>> \o ExprsAt(Tail(kinds), End(e) + 1)

\* k=value pairs one space apart
RECURSIVE PairsAt(_, _)
PairsAt(kinds, p) ==
  IF kinds = <<>> THEN <<>>
  ELSE LET value == ExprAt(Head(kinds), p + 2)
           pair == [key |-> IF Len(kinds) = 1 THEN <<"k">> ELSE <<"l">>,
                    value |-> value, loc |-> Loc(p, End(value))]
       IN <<pair>> \o PairsAt(Tail(kinds), End(value) + 1)

SeqsUpTo(S, n) == UNION {[1..k -> S] : k \in 0..n}

\* the call targets: a path, or (x "s")
Targets ==
  {[sub |-> FALSE, shape |-> shape] : shape \in PathShapes}
    \cup {[sub |-> TRUE,
           shape |-> [original |-> <<>>, parts |-> <<>>, data |-> FALSE]]}

\* {{target params hash}}
CallCst(target, paramKinds, hashKinds) ==
  LET path == IF target.sub THEN ExprAt("sexpr", 2)
              ELSE PathAt(target.shape, 2)
      params == ExprsAt(paramKinds, End(path) + 1)
      q == IF params = <<>> THEN End(path) + 1
           ELSE End(params[Len(params)]) + 1
      pairs == PairsAt(hashKinds, q)
      hash == IF pairs = <<>> THEN NoHashCst
              ELSE [type |-> "Hash", pairs |-> pairs,
                    loc |-> Loc(q, End(pairs[Len(pairs)].value))]
  IN [type |-> "MustacheStatement", path |-> path, params |-> params,
      hash |-> hash,
      loc |-> Loc(0, (IF pairs = <<>> THEN q - 1 ELSE hash.loc.end.column) + 2)]

InitExpr ==
  /\ ParserInit
  /\ ManagerIdle
  /\ AttrIdle
  /\ BuilderIdle
  /\ FnIdle
  /\ StdIdle
  /\ ast = <<>>
  /\ \E target \in Targets,
        paramKinds \in SeqsUpTo({"path", "lit", "sexpr"}, MaxParams),
        hashKinds \in SeqsUpTo({"path", "lit"}, MaxPairs) :
       cst = CallCst(target, paramKinds, hashKinds)

\* a pass resolves the call of cst
VisitCallNodes ==
  /\ Len(ast) < MaxVisits
  /\ ast' = Append(ast, [op |-> "acceptCallNodes", given |-> cst,
                         out |-> acceptCallNodes(cst)])
  /\ cst' = acceptCallNodesEffect(cst)
  /\ UNCHANGED <<parserVars, attrVars, builderVars, fnVars, stdVars,
               managerVars>>

\* a pass visits the call target of cst
VisitPathExpression ==
  /\ Len(ast) < MaxVisits
  /\ cst.path.type = "PathExpression"
  /\ ast' = Append(ast, [op |-> "PathExpression", given |-> cst.path,
                         out |-> PathExpression(cst.path)])
  /\ cst' = [cst EXCEPT !.path = PathExpressionEffect(@)]
  /\ UNCHANGED <<parserVars, attrVars, builderVars, fnVars, stdVars,
               managerVars>>

NextExpr == VisitCallNodes \/ VisitPathExpression

SpecExpr == InitExpr /\ [][NextExpr]_vars

----------------------------------------------------------------------------
\* Properties of expression translation

\* the visits of cst that resolved its call and did not raise
Resolutions ==
  {i \in 1..Len(ast) :
     ast[i].op = "acceptCallNodes" /\ ast[i].out.err.kind = "none"}

ZeroWidthAt(span, at) == span.start = at /\ span.end = at

\* hash is what resolving the CST call node given made of its hash
HashResolved(given, hash) ==
  IF given.hash.type = "none"
  THEN /\ hash.pairs = <<>>
       /\ ZeroWidthAt(hash.loc,
            IF given.params # <<>>
            THEN given.params[Len(given.params)].loc.end
            ELSE given.path.loc.end)
  ELSE /\ Len(hash.pairs) = Len(given.hash.pairs)
       /\ \A k \in 1..Len(hash.pairs) :
            /\ hash.pairs[k].key = given.hash.pairs[k].key
            /\ hash.pairs[k].value.type = given.hash.pairs[k].value.type
            /\ hash.pairs[k].value.loc.start = given.hash.pairs[k].value.loc.start
            /\ hash.pairs[k].value.loc.end = given.hash.pairs[k].value.loc.end

\* C11: resolving a call node that has no hash gives a hash of zero pairs
\* whose span is the zero-width point at the end of the last positional
\* parameter, or at the end of the call path when there are no parameters;
\* a hash the CST has is translated pair by pair, in order, keys unchanged.
\* The same holds of the sub-expressions among the call target and the
\* parameters.
C11_CallNodeHash ==
  \A i \in Resolutions :
    LET given == ast[i].given
        out == ast[i].out
    IN /\ HashResolved(given, out.hash)
       /\ given.path.type = "SubExpression"
            => HashResolved(given.path, out.path.hash)
       /\ \A k \in 1..Len(given.params) :
            given.params[k].type = "SubExpression"
              => HashResolved(given.params[k], out.params[k].hash)

\* a call with two parameters and no hash, one of them a sub-expression, and
\* a call with a hash of two pairs, were resolved
C11_Witness ==
  \E i \in Resolutions :
    /\ Len(ast[i].given.params) = MaxParams
    /\ ast[i].given.params[1].type = "SubExpression"
    /\ ast[i].given.hash.type = "Hash"
    /\ ast[i].out.err.kind = "none"
    /\ Len(ast[i].out.hash.pairs) = MaxPairs
    /\ ast[i].out.params[1].hash.pairs = <<>>

\* the visits of a path: what PathExpression was given, and what it returned
PathVisits ==
  {[given |-> ast[i].given, out |-> ast[i].out] :
     i \in {j \in 1..Len(ast) : ast[j].op = "PathExpression"}}
  \cup
  {[given |-> ast[i].given.path, out |-> ast[i].out.path] :
     i \in {j \in 1..Len(ast) : /\ ast[j].op = "acceptCallNodes"
                                /\ ast[j].given.path.type = "PathExpression"}}

\* the segments of a dotted source text
RECURSIVE Split(_)
Split(text) ==
  IF \E i \in 1..Len(text) : text[i] = "."
  THEN LET i == CHOOSE k \in 1..Len(text) :
                  text[k] = "." /\ \A j \in 1..(k - 1) : text[j] # "."
       IN <<SubSeq(text, 1, i - 1)>> \o Split(SubSeq(text, i + 1, Len(text)))
  ELSE <<text>>

\* the source text is this, or this.<rest>
IsThisPath(original) ==
  \/ original = <<"t", "h", "i", "s">>
  \/ /\ Len(original) > 5
     /\ SubSeq(original, 1, 5) = <<"t", "h", "i", "s", ".">>

\* C12: a path whose source text is this or this.<rest> gets a ThisHead
\* whose span starts at the path's start and ends 4 columns later on the same
\* line, and a tail of the segments after the leading this (none for a bare
\* this); no other path gets a ThisHead.
C12_ThisHead ==
  \A v \in PathVisits :
    IF IsThisPath(v.given.original)
    THEN /\ v.out.err.kind = "none"
         /\ v.out.head.type = "ThisHead"
         /\ v.out.head.loc.start = v.given.loc.start
         /\ v.out.head.loc.end =
              [line |-> v.given.loc.start.line,
               column |-> v.given.loc.start.column + 4]
         /\ v.out.tail.segments = Tail(Split(v.given.original))
         /\ Len(v.given.original) = 4 => v.out.tail = NoTail
    ELSE v.out.err.kind = "none" => v.out.head.type # "ThisHead"

\* this.y was visited twice, and gave the tail y both times
C12_Witness ==
  /\ Len(ast) = 2
  /\ \A i \in 1..2 :
       /\ ast[i].op = "PathExpression"
       /\ ast[i].out.err.kind = "none"
       /\ ast[i].out.head.type = "ThisHead"
       /\ ast[i].out.tail = [present |-> TRUE, segments |-> << <<"y">> >>]

\* the segments PathExpression works on: joined into one when the source
\* text has a slash
Segments(path) ==
  IF HasSlash(path.original) THEN <<Join(path.parts, "/")>> ELSE path.parts

\* the visits of a path that is not a this path and has the sigil
ArgVisits ==
  {v \in PathVisits : ~IsThisPath(v.given.original) /\ v.given.data}

\* the head spans width columns from the start of the path
HeadSpans(v, width) ==
  /\ v.out.head.loc.start = v.given.loc.start
  /\ v.out.head.loc.end = [line |-> v.given.loc.start.line,
                           column |-> v.given.loc.start.column + width]

RestIsTail(v) ==
  /\ v.out.tail.segments = Tail(Segments(v.given))
  /\ v.out.tail.present = (Len(Segments(v.given)) > 1)

\* a visit of a bare sigil raises the error, with the span of the path
BareArgRaises(v) ==
  Segments(v.given) = <<>> =>
    /\ v.out.err.kind = "SyntaxError"
    /\ v.out.err.loc = spanFor(v.given.loc)

\* C13, as the specification states it: the name of the head of a named
\* argument path is its first segment (@bar.baz gives the name bar).
C13_ArgNameIsFirstSegment ==
  \A v \in ArgVisits :
    Segments(v.given) # <<>> => v.out.head.name = Head(Segments(v.given))

\* C13: a path with the sigil that is not a this path gets an AtHead whose
\* name is the sigil followed by the first segment (@bar.baz gives @bar), whose
\* span is the length of the first segment + 1 from the start of the path, and
\* the tail is the remaining segments; with no first segment the visit raises a
\* syntax error that carries the span of the path.
C13_ArgHead ==
  \A v \in ArgVisits :
    /\ BareArgRaises(v)
    /\ Segments(v.given) # <<>> =>
         /\ v.out.err.kind = "none"
         /\ v.out.head.type = "AtHead"
         /\ v.out.head.name = <<"@">> \o Head(Segments(v.given))
         /\ HeadSpans(v, Len(Head(Segments(v.given))) + 1)
         /\ RestIsTail(v)

\* @xx.y was visited and gave the head @xx and the tail y
C13_Witness ==
  \E v \in ArgVisits :
    /\ v.given.parts = << <<"x", "x">>, <<"y">> >>
    /\ v.out.head.name = <<"@", "x", "x">>
    /\ v.out.tail.segments = << <<"y">> >>

\* a bare sigil was visited, and the visit raised
C13_WitnessBare ==
  \E v \in ArgVisits : v.given.parts = <<>> /\ v.out.err.kind = "SyntaxError"

\* the visits of a path that is not a this path and has no sigil
LocalVisits ==
  {v \in PathVisits : ~IsThisPath(v.given.original) /\ ~v.given.data}

C20_CstPathUnchanged ==
  \A i, j \in 1..Len(ast) :
    ast[i].op = "PathExpression" /\ ast[j].op = "PathExpression" =>
      /\ ast[i].given = ast[j].given
      /\ ast[i].out.err = ast[j].out.err
      /\ ast[i].out.head = ast[j].out.head
      /\ ast[i].out.tail = ast[j].out.tail

\* x.y was visited twice: the first visit took x away from the segment list
\* of the CST node, and the second made y the head
C20_Witness ==
  /\ Len(ast) = 2
  /\ ast[1].op = "PathExpression" /\ ast[2].op = "PathExpression"
  /\ ast[1].given.parts = << <<"x", "x">>, <<"y">> >>
  /\ ast[2].given.parts = << <<"y">> >>
  /\ ast[1].out.head.name = <<"x", "x">>
  /\ ast[2].out.head.name = <<"y">>
  /\ cst.path.parts = <<>>

----------------------------------------------------------------------------
\* The value of one attribute: text and dynamic parts in any order

\* Characters and dynamic nodes one attribute value is made of.
MaxItems == 4

InitAttr ==
  /\ ParserInit
  /\ ManagerIdle
  /\ ExprIdle
  /\ AttrIdle
  /\ BuilderIdle
  /\ FnIdle
  /\ StdIdle

InValue ==
  tokenizer.state \in {"attributeValueDoubleQuoted", "attributeValueSingleQuoted"}

DidItem(s) ==
  /\ Set(s)
  /\ steps' = steps + 1
  /\ UNCHANGED <<srcPos, last, prev, exprVars, builderVars, fnVars, stdVars,
               managerVars>>

\* <b a=" or <b a=' has been read
OpenValue ==
  /\ tokenizer.state = "beforeData"
  /\ \E quote \in {"\"", "'"} :
       Set(ContentStatement(Cur, [value |-> <<"<", "b", " ", "a", "=", quote>>,
                                  loc |-> Loc(0, 6)]))
  /\ UNCHANGED <<steps, srcPos, last, prev, written,
                 exprVars, builderVars, fnVars, stdVars, managerVars>>

\* one more character of literal text
AppendText ==
  /\ InValue
  /\ steps < MaxItems
  /\ \E c \in {"a", "b"} :
       /\ DidItem(TokChar(Cur, c))
       /\ written' =
            IF written # <<>> /\ written[Len(written)].type = "TextNode"
            THEN [written EXCEPT ![Len(written)].chars = Append(@, c)]
            ELSE Append(written, [type |-> "TextNode", chars |-> <<c>>, id |-> 0])

\* a mustache in the value
AppendDynamic ==
  /\ InValue
  /\ steps < MaxItems
  /\ DidItem(appendDynamicAttributeValuePart(Cur, steps + 1))
  /\ written' = Append(written, [type |-> "Dynamic", chars |-> <<>>,
                                 id |-> steps + 1])

\* the closing quote
FinishValue ==
  /\ InValue
  /\ Set(TokChar(Cur, IF tokenizer.state = "attributeValueDoubleQuoted"
                      THEN "\"" ELSE "'"))
  /\ UNCHANGED <<steps, srcPos, last, prev, written,
                 exprVars, builderVars, fnVars, stdVars, managerVars>>

NextAttr == OpenValue \/ AppendText \/ AppendDynamic \/ FinishValue

SpecAttr == InitAttr /\ [][NextAttr]_vars

\* the text run that is pending, as the part it will be
Pending(attr) ==
  IF attr.hasPart
  THEN <<[type |-> "TextNode", chars |-> attr.currentPart, id |-> 0]>>
  ELSE <<>>

ValueFinished == tokenizer.state = "afterAttributeValueQuoted"

\* C19: the parts of the current attribute, with the pending text run after
\* them, are the text runs and dynamic nodes in the order of the source, none
\* dropped and none twice; once a dynamic node is appended it is the last
\* part, no text is pending and the attribute is dynamic; and a finished value
\* has all of them as its parts.
C19_PartsInSourceOrder ==
  /\ currentAttr.parts \o Pending(currentAttr) = written
  /\ currentAttr.isDynamic = (\E i \in 1..Len(written) : written[i].type = "Dynamic")
  /\ written # <<>> /\ written[Len(written)].type = "Dynamic" =>
       ~currentAttr.hasPart /\ currentAttr.parts = written
  /\ ValueFinished =>
       /\ ~currentAttr.hasPart
       /\ currentNode.attributes[Len(currentNode.attributes)].parts = written

\* text, a dynamic node, text and a dynamic node again, then the closing quote
C19_Witness ==
  /\ ValueFinished
  /\ Len(written) = 4
  /\ written[1].type = "TextNode" /\ written[2].type = "Dynamic"
  /\ written[3].type = "TextNode" /\ written[4].type = "Dynamic"

----------------------------------------------------------------------------
\* AstBuilder: from a builder description to a tree with spans

Span(a, b) == [start |-> a, end |-> b]

\* a null of the description or of the tree
Null == [type |-> "null", err |-> NoError]

\* the error of a node kind the builder has no case for; loc is the position
\* the builder had reached
Unimplemented(type, at) ==
  [kind |-> "Error", msg |-> "unimplemented", arg |-> type, loc |-> Loc(at, at)]

\* String(value) of a number
RECURSIVE Digits(_)
Digits(n) == IF n < 10 THEN <<n>> ELSE Digits(n \div 10) \o <<n % 10>>

\* JSON.stringify(value) of a string that needs no escapes
Stringify(chars) == <<"\"">> \o chars \o <<"\"">>

\* consume(chars): the position after the characters
consume(at, chars) == at + Len(chars)

\* var: the head of a path
var(at, item) ==
  CASE item.type = "LocalReference" ->
         LET end == consume(at, item.name)
         IN [pos |-> end,
             node |-> [type |-> "LocalReference", err |-> NoError,
                       span |-> Span(at, end), name |-> item.name]]
    [] item.type = "This" ->
         LET end == consume(at, <<"t", "h", "i", "s">>)
         IN [pos |-> end,
             node |-> [type |-> "This", err |-> NoError, span |-> Span(at, end)]]
    [] OTHER ->
         LET end == consume(consume(at, <<"@">>), item.name)
         IN [pos |-> end,
             node |-> [type |-> "ArgReference", err |-> NoError,
                       span |-> Span(at, end), name |-> item.name]]

\* a statement of the builder that runs after another one and uses what it
\* returned: const first = ...; rest(first)
Then(first, rest(_)) == CHOOSE out \in {rest(v) : v \in {first}} : TRUE

\* segments: a null tail stays null; each segment is spanned after its dot
RECURSIVE segments(_, _)
segments(at, items) ==
  IF items = <<>> THEN [pos |-> at, node |-> <<>>]
  ELSE Then(consume(at, <<".">>), LAMBDA start :
       Then(consume(start, Head(items)), LAMBDA end :
       Then(segments(end, Tail(items)), LAMBDA rest :
         [pos |-> rest.pos,
          node |-> <<[type |-> "PathSegment", err |-> NoError,
                      span |-> Span(start, end), name |-> Head(items)]>>
                   \o rest.node])))

path(at, expression) ==
  Then(var(at, expression.head), LAMBDA head :
  Then(segments(head.pos, expression.tail.segments), LAMBDA tail :
    [pos |-> tail.pos,
     node |-> [type |-> "PathExpression", err |-> NoError,
               span |-> Span(at, tail.pos), head |-> head.node,
               tail |-> [present |-> expression.tail.present,
                         segments |-> tail.node]]]))

\* a literal that is spanned over the characters written for it
literalNode(at, expression, chars) ==
  [pos |-> consume(at, chars),
   node |-> [type |-> expression.type, err |-> NoError,
             span |-> Span(at, consume(at, chars)), value |-> expression.value]]

expr(at, expression) ==
  CASE expression.type = "BooleanLiteral" ->
         literalNode(at, expression,
                     IF expression.value THEN <<"t", "r", "u", "e">>
                     ELSE <<"f", "a", "l", "s", "e">>)
    [] expression.type = "NumberLiteral" ->
         literalNode(at, expression, Digits(expression.value))
    [] expression.type = "StringLiteral" ->
         literalNode(at, expression, Stringify(expression.value))
    [] expression.type = "PathExpression" -> path(at, expression)
    [] OTHER ->
         [pos |-> at, node |-> [Null EXCEPT !.err = Unimplemented(expression.type, at)]]

RECURSIVE exprs(_, _)
exprs(at, params) ==
  IF params = <<>> THEN [pos |-> at, node |-> <<>>]
  ELSE Then(expr(at, Head(params)), LAMBDA first :
       Then(exprs(first.pos, Tail(params)), LAMBDA rest :
         [pos |-> rest.pos, node |-> <<first.node>> \o rest.node]))

\* the pair is spanned before its value is written: the callback that
\* spanned runs returns the node's maker without consuming anything, and the
\* maker translates the value
hashPair(at, pair) ==
  Then(expr(at, pair.value), LAMBDA value :
    [pos |-> value.pos,
     node |-> [type |-> "HashPair", err |-> value.node.err,
               span |-> Span(at, at), key |-> pair.key, value |-> value.node]])

RECURSIVE hashPairs(_, _)
hashPairs(at, pairs) ==
  IF pairs = <<>> THEN [pos |-> at, node |-> <<>>]
  ELSE Then(hashPair(at, Head(pairs)), LAMBDA first :
       Then(hashPairs(first.pos, Tail(pairs)), LAMBDA rest :
         [pos |-> rest.pos, node |-> <<first.node>> \o rest.node]))

hash(at, h) ==
  IF h.type = "null" THEN [pos |-> at, node |-> Null]
  ELSE Then(hashPairs(at, h.pairs), LAMBDA out :
         [pos |-> out.pos,
          node |-> [type |-> "Hash", err |-> FirstError(out.node),
                    span |-> Span(at, out.pos), pairs |-> out.node]])

pathString(expression) ==
  (CASE expression.head.type = "ArgReference" -> <<"@">> \o expression.head.name
     [] expression.head.type = "LocalReference" -> expression.head.name
     [] OTHER -> <<"t", "h", "i", "s">>)
  \o (IF expression.tail.present THEN Join(expression.tail.segments, ".")
      ELSE <<>>)

RECURSIVE visit(_, _)
RECURSIVE statements(_, _)

program(at, prog) ==
  Then(IF prog.blockParams.present
       THEN consume(consume(consume(at, <<" ", "a", "s", " ", "|">>),
                            Join(prog.blockParams.names, " ")),
                    <<"|", "}", "}">>)
       ELSE consume(at, <<"}", "}">>), LAMBDA start :
  Then(statements(start, prog.body), LAMBDA body :
    [pos |-> body.pos,
     node |-> [type |-> "Program", err |-> FirstError(body.node),
               span |-> Span(start, body.pos), body |-> body.node,
               blockParams |-> prog.blockParams]]))

statements(at, body) ==
  IF body = <<>> THEN [pos |-> at, node |-> <<>>]
  ELSE Then(visit(at, Head(body)), LAMBDA first :
       Then(statements(first.pos, Tail(body)), LAMBDA rest :
         [pos |-> rest.pos, node |-> <<first.node>> \o rest.node]))

visit(at, statement) ==
  CASE statement.type = "ContentStatement" ->
         [pos |-> consume(at, statement.value),
          node |-> [type |-> "ContentStatement", err |-> NoError,
                    span |-> Span(at, consume(at, statement.value)),
                    value |-> statement.value]]
    [] statement.type = "ContentMustache" ->
         Then(expr(consume(at, <<"{", "{">>), statement.value), LAMBDA value :
         Then(consume(value.pos, <<"}", "}">>), LAMBDA end :
           [pos |-> end,
            node |-> [type |-> "MustacheContent", err |-> value.node.err,
                      span |-> Span(at, end), value |-> value.node]]))
    [] statement.type = "BlockStatement" ->
         Then(path(consume(at, <<"{", "{", "#">>), statement.call), LAMBDA call :
         Then(IF statement.params # <<>>
              THEN exprs(consume(call.pos, <<" ">>), statement.params)
              ELSE [pos |-> call.pos, node |-> <<>>], LAMBDA params :
         Then(IF statement.hash.type # "null"
              THEN hash(consume(params.pos, <<" ">>), statement.hash)
              ELSE [pos |-> params.pos, node |-> Null], LAMBDA h :
         Then(program(h.pos, statement.program), LAMBDA prog :
         Then(IF statement.inverse.type # "null"
              THEN program(consume(prog.pos,
                                   <<"{", "{", "e", "l", "s", "e", "}", "}">>),
                           statement.inverse)
              ELSE [pos |-> prog.pos, node |-> Null], LAMBDA inverse :
         Then(consume(consume(consume(inverse.pos, <<"{", "{", "/">>),
                              pathString(statement.call)),
                      <<"}", "}">>), LAMBDA end :
           [pos |-> end,
            node |-> [type |-> "BlockStatement",
                      err |-> FirstError(<<call.node>> \o params.node
                                \o <<h.node, prog.node, inverse.node>>),
                      span |-> Span(at, end), call |-> call.node,
                      params |-> params.node, hash |-> h.node,
                      program |-> prog.node, inverse |-> inverse.node]]))))))
    [] statement.type = "MustacheStatement" ->
         Then(expr(consume(at, <<"{", "{">>), statement.call), LAMBDA call :
         Then(exprs(call.pos, statement.params), LAMBDA params :
         Then(hash(params.pos, statement.hash), LAMBDA h :
         Then(consume(h.pos, <<"}", "}">>), LAMBDA end :
           [pos |-> end,
            node |-> [type |-> "MustacheStatement",
                      err |-> FirstError(<<call.node>> \o params.node
                                           \o <<h.node>>),
                      span |-> Span(at, end), call |-> call.node,
                      params |-> params.node, hash |-> h.node]]))))
    [] OTHER ->
         [pos |-> at, node |-> [Null EXCEPT !.err = Unimplemented(statement.type, at)]]

\* build: the Program node, or the error a visit raised
build(at, description) ==
  Then(statements(at, description.body), LAMBDA body :
  Then(FirstError(body.node), LAMBDA raised :
    [pos |-> IF raised.kind = "none" THEN body.pos
             ELSE raised.loc.start.column,
     node |-> [type |-> "Program", err |-> raised,
               span |-> Span(at, body.pos), body |-> body.node]]))

\* Statements of one description.
MaxBody == 2

\* Uses of one AstBuilder.
MaxBuilds == 1

\* literal(value)
LiteralOf(type, value) == [type |-> type, value |-> value]

\* path("this.y"), path("@x"), path("x.y")
PathOf(head, name, tail) ==
  [type |-> "PathExpression", head |-> [type |-> head, name |-> name],
   tail |-> IF tail = <<>> THEN NoTail
            ELSE [present |-> TRUE, segments |-> tail]]

\* hash({k: value})
HashOf(value) == [type |-> "Hash", pairs |-> <<[key |-> <<"k">>, value |-> value]>>]

\* sexpr(path("x"), {})
SexprOf ==
  [type |-> "SubExpression", call |-> PathOf("LocalReference", <<"x">>, <<>>),
   params |-> <<>>, hash |-> Null]

Literals ==
  {LiteralOf("BooleanLiteral", TRUE), LiteralOf("NumberLiteral", 10),
   LiteralOf("StringLiteral", <<"s">>), LiteralOf("NullLiteral", <<>>),
   LiteralOf("UndefinedLiteral", <<>>)}

Paths ==
  {PathOf("This", <<>>, << <<"y">> >>), PathOf("ArgReference", <<"x">>, <<>>),
   PathOf("LocalReference", <<"x">>, << <<"y">> >>)}

Expressions == Literals \cup Paths \cup {SexprOf}

\* block({statements, as}), and a Program without block parameters
ProgramOf(body, names) ==
  [type |-> "Program", body |-> body,
   blockParams |-> [present |-> names # <<>>, names |-> names]]

Statements ==
  {[type |-> "ContentStatement", value |-> <<"a", "b">>]}
  \cup {[type |-> "ContentMustache", value |-> e] : e \in Expressions}
  \cup {[type |-> "MustacheStatement",
         call |-> PathOf("LocalReference", <<"x">>, << <<"y">> >>),
         params |-> params, hash |-> h] :
          params \in {<<>>, <<LiteralOf("NumberLiteral", 10)>>},
          h \in {Null, HashOf(LiteralOf("StringLiteral", <<"s">>)),
                 HashOf(PathOf("LocalReference", <<"x">>, <<>>))}}
  \cup {[type |-> "BlockStatement",
         call |-> PathOf("LocalReference", <<"x">>, <<>>),
         params |-> params, hash |-> h, program |-> prog, inverse |-> inverse] :
          params \in {<<>>, <<LiteralOf("BooleanLiteral", TRUE)>>},
          h \in {Null, HashOf(LiteralOf("NumberLiteral", 10))},
          prog \in {ProgramOf(<<>>, <<>>),
                    ProgramOf(<<[type |-> "ContentStatement", value |-> <<"a", "b">>]>>,
                              << <<"a">>, <<"b">> >>)},
          inverse \in {Null, ProgramOf(<<>>, <<>>)}}

\* ast(...statements)
InitBuilder ==
  /\ ParserInit
  /\ ManagerIdle
  /\ ExprIdle
  /\ AttrIdle
  /\ FnIdle
  /\ StdIdle
  /\ pos = 0
  /\ built = <<>>
  /\ \E body \in SeqsUpTo(Statements, MaxBody) :
       builderAst = [type |-> "Program", body |-> body]

\* new AstBuilder().build(description), and build again on the same builder
Build ==
  /\ Len(built) < MaxBuilds
  /\ \E out \in {build(pos, builderAst)} :
       /\ pos' = out.pos
       /\ built' = Append(built, [from |-> pos, node |-> out.node])
  /\ UNCHANGED <<builderAst, parserVars, exprVars, attrVars, fnVars, stdVars,
               managerVars>>

NextBuilder == Build

SpecBuilder == InitBuilder /\ [][NextBuilder]_vars

----------------------------------------------------------------------------
\* Properties of AstBuilder

\* the children of a node of the tree, nulls among them
Children(n) ==
  CASE n.type = "Program" -> n.body
    [] n.type = "MustacheContent" -> <<n.value>>
    [] n.type = "MustacheStatement" -> <<n.call>> \o n.params \o <<n.hash>>
    [] n.type = "BlockStatement" ->
         <<n.call>> \o n.params \o <<n.hash, n.program, n.inverse>>
    [] n.type = "Hash" -> n.pairs
    [] n.type = "HashPair" -> <<n.value>>
    [] n.type = "PathExpression" -> <<n.head>> \o n.tail.segments
    [] OTHER -> <<>>

Contains(parent, child) ==
  parent.start <= child.start /\ child.end <= parent.end

\* in the tree under n every span contains the spans of the children
RECURSIVE AllContained(_)
AllContained(n) ==
  \A i \in 1..Len(Children(n)) :
    LET child == Children(n)[i]
    IN child.type # "null" =>
         Contains(n.span, child.span) /\ AllContained(child)

\* the builds that returned a tree
Trees == {i \in 1..Len(built) : built[i].node.err.kind = "none"}

\* C15, as the specification states it: in every tree build returns, the
\* span of each node contains the span of each of its children.
C15_SpansContainChildren ==
  \A i \in Trees : AllContained(built[i].node)

\* a mustache with the hash k="s" was built: the pair is spanned before its
\* value is written, and has the width zero
C15_Witness ==
  \E i \in Trees :
    /\ Len(built[i].node.body) = 1
    /\ built[i].node.body[1].type = "MustacheStatement"
    /\ built[i].node.body[1].hash.type = "Hash"
    /\ LET pair == built[i].node.body[1].hash.pairs[1]
       IN /\ pair.span.start = pair.span.end
          /\ pair.value.type = "StringLiteral"
          /\ pair.value.span.start = pair.span.start
          /\ pair.value.span.end = pair.span.end + 3

\* C16, as the specification states it: build returns a tree, and does not
\* raise, for every description made of content, mustaches of both forms,
\* blocks, sub-expressions, hashes, literals of the five kinds and paths.
C16_BuildNeverRaises ==
  \A i \in 1..Len(built) : built[i].node.err.kind = "none"

\* a description with the mustache of a null literal was built, and the build
\* raised the error of an unimplemented kind
C16_Witness ==
  \E i \in 1..Len(built) :
    /\ builderAst.body = <<[type |-> "ContentMustache",
                            value |-> LiteralOf("NullLiteral", <<>>)]>>
    /\ built[i].node.err = Unimplemented("NullLiteral", built[i].from + 2)

----------------------------------------------------------------------------
\* The fn helper: the function it makes, invoked while the template's
\* values change

\* Curried arguments, and arguments of one invocation.
MaxArgs == 2

Values == {"a", "b"}

\* a reference of the template: initial is the value it had when the helper
\* was called
SourceOf(kind, value) == [kind |-> kind, value |-> value, initial |-> value]

getValue(source) == source.value

isInvokableSource(source) == source.kind = "invokable"

\* typeof value === 'function'
IsFunction(source) == source.kind = "function"

reifyPositional(sources) == [i \in 1..Len(sources) |-> getValue(sources[i])]

\* what a callback returns is a function of the callback and its arguments
ResultOf(callback, args) == [of |-> callback, args |-> args]

NoResult == ResultOf("none", <<>>)

\* assertCallbackIsFn
CallbackIsFn(callbackSource) ==
  isInvokableSource(callbackSource) \/ IsFunction(callbackSource)

\* the function made by a helper that had reified positional when it was
\* called, not when the function is invoked
fnInvoke_ReifiedEarly(sources, invocationArgs, debug) ==
  LET callbackSource == sources[1]
      early == [i \in 1..Len(sources) |-> sources[i].initial]
      args == Tail(early)
  IN IF debug /\ ~CallbackIsFn(callbackSource)
     THEN [called |-> <<>>, returned |-> NoResult, raised |-> "Error",
           updated |-> <<>>]
     ELSE IF isInvokableSource(callbackSource)
     THEN [called |-> <<>>, returned |-> NoResult, raised |-> "none",
           updated |-> <<IF Len(args) > 0 THEN args[1]
                         ELSE IF Len(invocationArgs) > 0 THEN invocationArgs[1]
                         ELSE "undefined">>]
     ELSE IF ~IsFunction(callbackSource)
     THEN [called |-> <<>>, returned |-> NoResult, raised |-> "TypeError",
           updated |-> <<>>]
     ELSE [called |-> <<[callback |-> Head(early), this |-> "context",
                         args |-> args \o invocationArgs]>>,
           returned |-> ResultOf(Head(early), args \o invocationArgs),
           raised |-> "none", updated |-> <<>>]

\* (...invocationArgs) => ..., the function the helper makes: the callback
\* calls it makes, what it returns or raises, and the value it gives to an
\* invokable callback source
fnInvoke(sources, invocationArgs, debug) ==
  LET callbackSource == sources[1]
      reified == reifyPositional(sources)
      args == Tail(reified)
  IN IF debug /\ ~CallbackIsFn(callbackSource)
     THEN [called |-> <<>>, returned |-> NoResult, raised |-> "Error",
           updated |-> <<>>]
     ELSE IF isInvokableSource(callbackSource)
     THEN [called |-> <<>>, returned |-> NoResult, raised |-> "none",
           updated |-> <<IF Len(args) > 0 THEN args[1]
                         ELSE IF Len(invocationArgs) > 0 THEN invocationArgs[1]
                         ELSE "undefined">>]
     ELSE IF ~IsFunction(callbackSource)
     THEN [called |-> <<>>, returned |-> NoResult, raised |-> "TypeError",
           updated |-> <<>>]
     ELSE [called |-> <<[callback |-> Head(reified), this |-> "context",
                         args |-> args \o invocationArgs]>>,
           returned |-> ResultOf(Head(reified), args \o invocationArgs),
           raised |-> "none", updated |-> <<>>]

\* {{fn callback curried...}}
InitFn ==
  /\ ParserInit
  /\ ManagerIdle
  /\ ExprIdle
  /\ AttrIdle
  /\ BuilderIdle
  /\ StdIdle
  /\ calls = <<>>
  /\ \E callback \in {SourceOf("function", "f"), SourceOf("invokable", "a"),
                      SourceOf("other", "a")},
        curried \in SeqsUpTo(Values, MaxArgs) :
       positional = <<callback>>
                    \o [i \in 1..Len(curried) |-> SourceOf("other", curried[i])]

\* the template gives a curried argument another value
UpdateArg ==
  /\ \E i \in 2..Len(positional), v \in Values :
       /\ positional[i].value # v
       /\ positional' = [positional EXCEPT ![i].value = v]
  /\ UNCHANGED <<calls, parserVars, exprVars, attrVars, builderVars, stdVars,
               managerVars>>

\* the function is invoked, in a debug or a production build; calls keeps
\* what the latest invocation did
Invoke ==
  /\ \E invocationArgs \in SeqsUpTo(Values, MaxArgs), debug \in BOOLEAN :
       LET out == fnInvoke(positional, invocationArgs, debug)
       IN /\ calls' = <<[sources |-> positional,
                         invocationArgs |-> invocationArgs, out |-> out]>>
          /\ positional' = IF out.updated = <<>> THEN positional
                           ELSE [positional EXCEPT ![1].value = out.updated[1]]
  /\ UNCHANGED <<parserVars, exprVars, attrVars, builderVars, stdVars,
               managerVars>>

NextFn == UpdateArg \/ Invoke

SpecFn == InitFn /\ [][NextFn]_vars

\* C17: invoked with a plain function as its callback, the function the fn
\* helper makes calls the callback exactly once, with the values the curried
\* arguments have at the invocation followed by the arguments of the
\* invocation, in that order, and returns what the callback returns; without
\* arguments of the invocation the callback gets the curried arguments only.
C17_CurriedThenInvocationArgs ==
  \A i \in 1..Len(calls) :
    LET c == calls[i]
        curried == [k \in 1..(Len(c.sources) - 1) |-> c.sources[k + 1].value]
    IN c.sources[1].kind = "function" =>
         /\ c.out.raised = "none"
         /\ Len(c.out.called) = 1
         /\ c.out.called[1].callback = c.sources[1].value
         /\ c.out.called[1].args = curried \o c.invocationArgs
         /\ c.invocationArgs = <<>> => c.out.called[1].args = curried
         /\ c.out.returned = ResultOf(c.sources[1].value, c.out.called[1].args)

\* two curried arguments, one of them changed since the helper was called,
\* and two arguments of the invocation
C17_Witness ==
  \E i \in 1..Len(calls) :
    /\ calls[i].sources[1].kind = "function"
    /\ Len(calls[i].sources) = 3
    /\ calls[i].sources[2].value # calls[i].sources[2].initial
    /\ Len(calls[i].invocationArgs) = 2
    /\ Len(calls[i].out.called[1].args) = 4

----------------------------------------------------------------------------
\* The standard library's append routines

\* Appends run one after the other.
MaxAppends == 2

\* the content types StdAppend has a case for
ContentTypes == {"String", "Component", "Helper", "SafeString", "Fragment",
                 "Node"}

NullHandle == "null"

\* op(name) and op(MachineOp.InvokeStatic, handle)
Op(name) == [op |-> name, handle |-> NullHandle]

InvokeStaticOp(handle) == [op |-> "InvokeStatic", handle |-> handle]

\* InvokeBareComponent(op)
InvokeBareComponent == <<Op("InvokeBareComponent")>>

\* CallDynamic(op, null, null, append): the helper is called, then append()
CallDynamic(append) == <<Op("CallDynamic")>> \o append

\* StdAppend without the test on nonDynamicAppend
StdAppend_AlwaysCalls(trusting, nonDynamicAppend) ==
  [type \in ContentTypes |->
     CASE type = "String" ->
            IF trusting THEN <<Op("AssertSame"), Op("AppendHTML")>>
            ELSE <<Op("AppendText")>>
       [] type = "Component" ->
            <<Op("ResolveCurriedComponent"),
              Op("PushDynamicComponentInstance")>> \o InvokeBareComponent
       [] type = "Helper" ->
            CallDynamic(<<InvokeStaticOp(nonDynamicAppend)>>)
       [] type = "SafeString" -> <<Op("AssertSame"), Op("AppendSafeHTML")>>
       [] type = "Fragment" ->
            <<Op("AssertSame"), Op("AppendDocumentFragment")>>
       [] type = "Node" -> <<Op("AssertSame"), Op("AppendNode")>>]

\* the operations of the routine, for each content type SwitchCases selects
StdAppend(trusting, nonDynamicAppend) ==
  [type \in ContentTypes |->
     CASE type = "String" ->
            IF trusting THEN <<Op("AssertSame"), Op("AppendHTML")>>
            ELSE <<Op("AppendText")>>
       [] type = "Component" ->
            IF nonDynamicAppend # NullHandle
            THEN <<Op("ResolveCurriedComponent"),
                   Op("PushDynamicComponentInstance")>> \o InvokeBareComponent
            ELSE <<Op("AppendText")>>
       [] type = "Helper" ->
            IF nonDynamicAppend # NullHandle
            THEN CallDynamic(<<InvokeStaticOp(nonDynamicAppend)>>)
            ELSE <<Op("AppendText")>>
       [] type = "SafeString" -> <<Op("AssertSame"), Op("AppendSafeHTML")>>
       [] type = "Fragment" ->
            <<Op("AssertSame"), Op("AppendDocumentFragment")>>
       [] type = "Node" -> <<Op("AssertSame"), Op("AppendNode")>>]

\* the append routines of the library, by handle
compileStd ==
  [trustingGuardedNonDynamicAppend |-> StdAppend(TRUE, NullHandle),
   cautiousGuardedNonDynamicAppend |-> StdAppend(FALSE, NullHandle),
   trustingGuardedDynamicAppend |->
     StdAppend(TRUE, "trustingGuardedNonDynamicAppend"),
   cautiousGuardedDynamicAppend |->
     StdAppend(FALSE, "cautiousGuardedNonDynamicAppend")]

AppendHandles == DOMAIN compileStd

\* the operations the routine of a frame runs
Routine(frame) == compileStd[frame.handle][frame.type]

InitStd ==
  /\ ParserInit
  /\ ManagerIdle
  /\ ExprIdle
  /\ AttrIdle
  /\ BuilderIdle
  /\ FnIdle
  /\ running = <<>>
  /\ emitted = <<>>

\* the operation the innermost routine is at
AtOp(name) ==
  /\ running # <<>>
  /\ Top(running).pc <= Len(Routine(Top(running)))
  /\ Routine(Top(running))[Top(running).pc].op = name

\* the operation is run: it joins the operations of the current append
Ran ==
  LET frame == Top(running)
      ran == Routine(frame)[frame.pc]
  IN [emitted EXCEPT ![Len(emitted)] =
        Append(@, [op |-> ran.op, handle |-> ran.handle, by |-> frame.handle,
                   type |-> frame.type])]

Advanced == [running EXCEPT ![Len(running)].pc = @ + 1]

\* a template appends a value of some content type with one of the routines
StartAppend ==
  /\ running = <<>>
  /\ Len(emitted) < MaxAppends
  /\ \E handle \in AppendHandles, type \in ContentTypes :
       running' = <<[handle |-> handle, type |-> type, pc |-> 1]>>
  /\ emitted' = Append(emitted, <<>>)
  /\ UNCHANGED <<parserVars, exprVars, attrVars, builderVars, fnVars,
               managerVars>>

\* an operation that stays in the routine
RunOp ==
  /\ running # <<>>
  /\ Top(running).pc <= Len(Routine(Top(running)))
  /\ ~AtOp("InvokeStatic")
  /\ emitted' = Ran
  /\ running' = Advanced
  /\ UNCHANGED <<parserVars, exprVars, attrVars, builderVars, fnVars,
               managerVars>>

\* MachineOp.InvokeStatic: the routine of the handle runs on what the helper
\* returned, a value of some content type
InvokeStatic ==
  /\ AtOp("InvokeStatic")
  /\ emitted' = Ran
  /\ \E type \in ContentTypes :
       running' = Append(Advanced,
                         [handle |-> Routine(Top(running))[Top(running).pc].handle,
                          type |-> type, pc |-> 1])
  /\ UNCHANGED <<parserVars, exprVars, attrVars, builderVars, fnVars,
               managerVars>>

\* the routine is at its end
ReturnFromRoutine ==
  /\ running # <<>>
  /\ Top(running).pc > Len(Routine(Top(running)))
  /\ running' = SubSeq(running, 1, Len(running) - 1)
  /\ UNCHANGED <<emitted, parserVars, exprVars, attrVars, builderVars, fnVars,
               managerVars>>

NextStd == StartAppend \/ RunOp \/ InvokeStatic \/ ReturnFromRoutine

SpecStd == InitStd /\ [][NextStd]_vars

----------------------------------------------------------------------------
\* Properties of the append routines

NonDynamicHandles ==
  {"trustingGuardedNonDynamicAppend", "cautiousGuardedNonDynamicAppend"}

DynamicHandles ==
  {"trustingGuardedDynamicAppend", "cautiousGuardedDynamicAppend"}

\* the operations that call or invoke the appended value
Invoking ==
  {"ResolveCurriedComponent", "PushDynamicComponentInstance",
   "InvokeBareComponent", "CallDynamic", "InvokeStatic"}

SameFlagNonDynamic(handle) ==
  IF handle = "trustingGuardedDynamicAppend"
  THEN "trustingGuardedNonDynamicAppend"
  ELSE "cautiousGuardedNonDynamicAppend"

\* C18: a non-dynamic append routine runs none of the operations that call or
\* invoke the appended value, and for Component and Helper content it runs
\* AppendText only; InvokeStatic is run only by the Helper case of a dynamic
\* routine, on the non-dynamic routine with the same trusting flag; so at most
\* two routines are running at once, the inner one non-dynamic, and one append
\* runs at most four operations.
C18_NonDynamicNeverCalls ==
  /\ \A a \in 1..Len(emitted) :
       /\ Len(emitted[a]) <= 4
       /\ \A k \in 1..Len(emitted[a]) :
            LET e == emitted[a][k]
            IN /\ e.by \in NonDynamicHandles => e.op \notin Invoking
               /\ (e.by \in NonDynamicHandles /\ e.type \in {"Component", "Helper"})
                    => e.op = "AppendText"
               /\ e.op = "InvokeStatic" =>
                    /\ e.by \in DynamicHandles
                    /\ e.type = "Helper"
                    /\ e.handle = SameFlagNonDynamic(e.by)
  /\ Len(running) <= 2
  /\ Len(running) = 2 =>
       /\ running[1].handle \in DynamicHandles
       /\ running[2].handle \in NonDynamicHandles

\* a dynamic append of a helper whose result is itself a helper: the
\* non-dynamic routine has appended it as text and both routines are over
C18_Witness ==
  /\ running = <<>>
  /\ \E a \in 1..Len(emitted) :
       /\ Len(emitted[a]) = 3
       /\ emitted[a][1].op = "CallDynamic"
       /\ emitted[a][1].by = "cautiousGuardedDynamicAppend"
       /\ emitted[a][2].op = "InvokeStatic"
       /\ emitted[a][3].op = "AppendText"
       /\ emitted[a][3].by = "cautiousGuardedNonDynamicAppend"
       /\ emitted[a][3].type = "Helper"

----------------------------------------------------------------------------
\* CustomHelperManager: the delegate of each owner

\* Calls of getDelegateFor on one manager.
MaxCalls == 3

\* owner === undefined
UndefinedOwner == "undefined"

Owners == {"o1", "o2"}

\* what the factory does when it is called: it returns a delegate whose
\* capabilities come from capabilities('3.23'), one whose capabilities do not,
\* or it throws
FactoryResults == {"capabilities", "other", "throws"}

\* the object a call of the factory returns; id tells the objects apart
Delegate(id, makes) == [id |-> id, fromCapabilities |-> makes = "capabilities"]

\* WeakMap.get: the delegate of the owner, if any
WeakMapGet(map, owner) ==
  IF \E i \in 1..Len(map) : map[i].owner = owner
  THEN <<map[CHOOSE i \in 1..Len(map) : map[i].owner = owner].delegate>>
  ELSE <<>>

\* WeakMap.set
WeakMapSet(map, owner, delegate) ==
  IF \E i \in 1..Len(map) : map[i].owner = owner
  THEN [i \in 1..Len(map) |->
          IF map[i].owner = owner THEN [map[i] EXCEPT !.delegate = delegate]
          ELSE map[i]]
  ELSE Append(map, [owner |-> owner, delegate |-> delegate])

\* getDelegateForOwner with the delegate stored before its capabilities are
\* looked at
getDelegateForOwner_StoresFirst(map, owner, makes, debug, id) ==
  LET cached == WeakMapGet(map, owner)
  IN IF cached # <<>>
     THEN [helperManagerDelegates |-> map, invoked |-> FALSE,
           raised |-> "none", returned |-> cached]
     ELSE IF makes = "throws"
     THEN [helperManagerDelegates |-> map, invoked |-> TRUE,
           raised |-> "factory", returned |-> <<>>]
     ELSE IF debug /\ ~Delegate(id, makes).fromCapabilities
     THEN [helperManagerDelegates |-> WeakMapSet(map, owner, Delegate(id, makes)),
           invoked |-> TRUE, raised |-> "Error", returned |-> <<>>]
     ELSE [helperManagerDelegates |-> WeakMapSet(map, owner, Delegate(id, makes)),
           invoked |-> TRUE, raised |-> "none",
           returned |-> <<Delegate(id, makes)>>]

\* getDelegateForOwner: the map after the call, whether the factory was
\* called, and what the call returned or raised
getDelegateForOwner(map, owner, makes, debug, id) ==
  LET cached == WeakMapGet(map, owner)
  IN IF cached # <<>>
     THEN [helperManagerDelegates |-> map, invoked |-> FALSE,
           raised |-> "none", returned |-> cached]
     ELSE IF makes = "throws"
     THEN [helperManagerDelegates |-> map, invoked |-> TRUE,
           raised |-> "factory", returned |-> <<>>]
     ELSE IF debug /\ ~Delegate(id, makes).fromCapabilities
     THEN [helperManagerDelegates |-> map, invoked |-> TRUE,
           raised |-> "Error", returned |-> <<>>]
     ELSE [helperManagerDelegates |-> WeakMapSet(map, owner, Delegate(id, makes)),
           invoked |-> TRUE, raised |-> "none",
           returned |-> <<Delegate(id, makes)>>]

\* getDelegateFor: both caches after the call, whether the factory was called,
\* and what the call returned or raised
getDelegateFor(undefined, map, owner, makes, debug, id) ==
  IF owner = UndefinedOwner
  THEN IF undefined = <<>>
       THEN IF makes = "throws"
            THEN [undefinedDelegate |-> undefined, helperManagerDelegates |-> map,
                  invoked |-> TRUE, raised |-> "factory", returned |-> <<>>]
            ELSE [undefinedDelegate |-> <<Delegate(id, makes)>>,
                  helperManagerDelegates |-> map, invoked |-> TRUE,
                  raised |-> "none", returned |-> <<Delegate(id, makes)>>]
       ELSE [undefinedDelegate |-> undefined, helperManagerDelegates |-> map,
             invoked |-> FALSE, raised |-> "none", returned |-> undefined]
  ELSE LET out == getDelegateForOwner(map, owner, makes, debug, id)
       IN [undefinedDelegate |-> undefined,
           helperManagerDelegates |-> out.helperManagerDelegates,
           invoked |-> out.invoked, raised |-> out.raised,
           returned |-> out.returned]

\* new CustomHelperManager(factory), in a debug or a production build
InitManager ==
  /\ ParserInit
  /\ ExprIdle
  /\ AttrIdle
  /\ BuilderIdle
  /\ FnIdle
  /\ StdIdle
  /\ helperManagerDelegates = <<>>
  /\ undefinedDelegate = <<>>
  /\ DEBUG \in BOOLEAN
  /\ factoryCalls = <<>>
  /\ delegateCalls = <<>>

\* manager.getDelegateFor(owner); makes is what the factory does if this call
\* reaches it
GetDelegateFor ==
  /\ Len(delegateCalls) < MaxCalls
  /\ \E owner \in Owners \cup {UndefinedOwner}, makes \in FactoryResults :
       \E out \in {getDelegateFor(undefinedDelegate, helperManagerDelegates,
                                  owner, makes, DEBUG, Len(factoryCalls) + 1)} :
         /\ undefinedDelegate' = out.undefinedDelegate
         /\ helperManagerDelegates' = out.helperManagerDelegates
         /\ factoryCalls' = IF out.invoked
                            THEN Append(factoryCalls,
                                        [owner |-> owner, makes |-> makes])
                            ELSE factoryCalls
         /\ delegateCalls' =
              Append(delegateCalls,
                     [owner |-> owner, invoked |-> out.invoked,
                      raised |-> out.raised, returned |-> out.returned,
                      before |-> [undefinedDelegate |-> undefinedDelegate,
                                  helperManagerDelegates |-> helperManagerDelegates],
                      after |-> [undefinedDelegate |-> out.undefinedDelegate,
                                 helperManagerDelegates |->
                                   out.helperManagerDelegates]])
  /\ UNCHANGED <<DEBUG, parserVars, exprVars, attrVars, builderVars, fnVars,
                 stdVars>>

NextManager == GetDelegateFor

SpecManager == InitManager /\ [][NextManager]_vars

----------------------------------------------------------------------------
\* Properties of CustomHelperManager

\* the calls that returned a delegate
Returned(c) == c.raised = "none" /\ c.returned # <<>>

\* C21: on one manager, the calls of getDelegateFor with the same owner (no
\* owner included) that return normally all return the same delegate; after a
\* call has returned a delegate for an owner no later call with that owner
\* calls the factory; the delegates returned for different owners are
\* different objects, each made by a factory call for its owner; and a call
\* that raises leaves both caches as they were.
C21_OneDelegatePerOwner ==
  /\ \A i, j \in 1..Len(delegateCalls) :
       LET a == delegateCalls[i]
           b == delegateCalls[j]
       IN /\ (a.owner = b.owner /\ Returned(a) /\ Returned(b))
               => a.returned = b.returned
          /\ (i < j /\ a.owner = b.owner /\ Returned(a))
               => ~b.invoked /\ Returned(b)
          /\ (a.owner # b.owner /\ Returned(a) /\ Returned(b))
               => a.returned[1].id # b.returned[1].id
  /\ \A i \in 1..Len(delegateCalls) :
       LET c == delegateCalls[i]
       IN /\ Returned(c) =>
               /\ c.returned[1].id \in 1..Len(factoryCalls)
               /\ factoryCalls[c.returned[1].id].owner = c.owner
          /\ c.raised # "none" => c.returned = <<>> /\ c.after = c.before

\* in a debug build a call for o1 raised on the delegate's capabilities, the
\* next call for o1 made a delegate with the second factory call, and the
\* third call returned that delegate without a factory call
C21_Witness ==
  /\ DEBUG
  /\ Len(delegateCalls) = 3
  /\ Len(factoryCalls) = 2
  /\ \A i \in 1..3 : delegateCalls[i].owner = "o1"
  /\ delegateCalls[1].raised = "Error"
  /\ Returned(delegateCalls[2])
  /\ delegateCalls[2].invoked
  /\ Returned(delegateCalls[3])
  /\ ~delegateCalls[3].invoked
  /\ delegateCalls[3].returned[1].id = 2

====
